---- MODULE Spec2Model ----
(***************************************************************************)
(* A model of trifle_stats_go: the write buffer (Buffer), the packed merge *)
(* protocol of the transactional drivers, the configuration's storage      *)
(* accessor and the Track/Assert/Values orchestration.                     *)
(*                                                                         *)
(* Values (map[string]any) are tagged nodes: Num(n), Str(s), Map(m) where  *)
(* m is a function from key strings to nodes.  float64 arithmetic is       *)
(* modelled on small integers, where it is exact.                          *)
(***************************************************************************)
EXTENDS Integers, Sequences, FiniteSets, TLC

\* ------------------------------------------------------------------ bounds

\* Logical write calls accepted by the buffer in one behaviour.
MaxOps == 2
\* Largest BufferOptions.Size offered to NewBuffer (0 means "use default").
MaxSize == 2
\* Buffers one Config builds in one behaviour.
MaxBuilt == 2
\* Longest string, in bytes, and longest list offered to a function.
MaxLen == 3

\* ------------------------------------------------------- program constants

defaultBufferSize == 256
systemKeyName == "__system__key__"
untrackedKeyName == "__untracked__"
\* Config.Separator of DefaultConfig.
Separator == "::"
\* A nil *time.Time (Key.At); instants are seconds, never negative here.
NilAt == -1

\* ------------------------------------------------------------------ values

Num(n) == [t |-> "num", n |-> n]
Str(s) == [t |-> "str", s |-> s]
Map(m) == [t |-> "map", m |-> m]
\* A missing map entry read through out[key] (the nil interface value).
NilValue == [t |-> "nil"]
EmptyMap == [k \in {} |-> NilValue]

MapGet(m, k) == IF k \in DOMAIN m THEN m[k] ELSE NilValue
MapPut(m, k, v) == [x \in DOMAIN m \cup {k} |-> IF x = k THEN v ELSE m[x]]

\* strconv.ParseFloat on the strings the model uses: "2" parses, "x" does not.
parseNumericString(s) ==
    IF s = "2" THEN [ok |-> TRUE, f |-> 2] ELSE [ok |-> FALSE, f |-> 0]

toFloat(v) ==
    CASE v.t = "num" -> [ok |-> TRUE, f |-> v.n]
      [] v.t = "str" -> parseNumericString(v.s)
      [] OTHER -> [ok |-> FALSE, f |-> 0]

\* ------------------------------------------------------------------ packer

\* packWithPrefix as it would be if it emitted every leaf under its own key.
RECURSIVE packEntriesWithoutPrefix(_, _)
packEntriesWithoutPrefix(input, prefix) ==
    UNION { IF input[k].t = "map"
            THEN packEntriesWithoutPrefix(input[k].m, k)
            ELSE {<<k, input[k]>>}
          : k \in DOMAIN input }

\* The (path, leaf) pairs packWithPrefix emits for input under prefix.
RECURSIVE packEntries(_, _)
packEntries(input, prefix) ==
    UNION { LET key == IF prefix # "" THEN prefix \o "." \o k ELSE k
            IN  IF input[k].t = "map"
                THEN packEntries(input[k].m, key)
                ELSE {<<key, input[k]>>}
          : k \in DOMAIN input }

\* Pack: a flat map of the emitted pairs.  Two pairs with one path (a dotted
\* key beside a nested map) overwrite each other in Go's map iteration order,
\* so every emitted leaf of a path is a possible result.
PackResults(input) ==
    LET es == packEntries(input, "")
        paths == {e[1] : e \in es}
    IN  {f \in [paths -> {e[2] : e \in es}] : \A p \in paths : <<p, f[p]>> \in es}

Pack(input) == CHOOSE f \in PackResults(input) : TRUE

\* ------------------------------------------------------------ merge protocol

RECURSIVE mergeIncrement(_, _)
mergeIncrement(current, incoming) ==
    [key \in DOMAIN current \cup DOMAIN incoming |->
        IF key \notin DOMAIN incoming THEN current[key]
        ELSE LET value == incoming[key] IN
             IF value.t = "map"
             THEN LET cur == MapGet(current, key)
                      existing == IF cur.t = "map" THEN cur.m ELSE EmptyMap
                  IN  Map(mergeIncrement(existing, value.m))
             ELSE IF toFloat(value).ok
                  THEN LET cur == toFloat(MapGet(current, key))
                           base == IF cur.ok THEN cur.f ELSE 0
                       IN  Num(base + toFloat(value).f)
                  ELSE value]

\* mergePackedValues: [ok, out]; an increment by a non-numeric value is an error.
mergePackedValues(existing, incoming, op) ==
    CASE op = "inc" ->
           IF \E key \in DOMAIN incoming : ~toFloat(incoming[key]).ok
           THEN [ok |-> FALSE, out |-> existing]
           ELSE [ok |-> TRUE,
                 out |-> [key \in DOMAIN existing \cup DOMAIN incoming |->
                            IF key \notin DOMAIN incoming THEN existing[key]
                            ELSE LET cur == toFloat(MapGet(existing, key))
                                     base == IF cur.ok THEN cur.f ELSE 0
                                 IN  Num(base + toFloat(incoming[key]).f)]]
      [] op = "set" ->
           [ok |-> TRUE,
            out |-> [key \in DOMAIN existing \cup DOMAIN incoming |->
                       IF key \in DOMAIN incoming THEN incoming[key] ELSE existing[key]]]
      [] OTHER -> [ok |-> FALSE, out |-> existing]

\* -------------------------------------------------------------------- keys

MkKey(prefix, key, trackingKey, granularity, at) ==
    [Prefix |-> prefix, Key |-> key, TrackingKey |-> trackingKey,
     Granularity |-> granularity, At |-> at]

SystemTrackingKey(k) == IF k.TrackingKey # "" THEN k.TrackingKey ELSE k.Key

\* strings.Join
RECURSIVE JoinStrings(_, _)
JoinStrings(parts, sep) ==
    IF Len(parts) = 0 THEN ""
    ELSE IF Len(parts) = 1 THEN parts[1]
    ELSE parts[1] \o sep \o JoinStrings(Tail(parts), sep)

\* strconv.FormatInt(k.At.Unix(), 10)
FormatUnix(at) == ToString(at)

Join(k, separator) ==
    JoinStrings(
        (IF k.Prefix # "" THEN <<k.Prefix>> ELSE <<>>)
        \o (IF k.Key # "" THEN <<k.Key>> ELSE <<>>)
        \o (IF k.Granularity # "" THEN <<k.Granularity>> ELSE <<>>)
        \o (IF k.At # NilAt THEN <<FormatUnix(k.At)>> ELSE <<>>),
        separator)

\* ------------------------------------------------------------------ driver
\* The transactional, count-aware driver (PostgresDriver, JoinedFull): db maps
\* the joined identifier of a row to its packed data.

\* identifierForKey, JoinedFull: the lookup key of the row.
identifierForKey(k) == Join(k, Separator)

readPacked(db, ident) == IF ident \in DOMAIN db THEN db[ident] ELSE EmptyMap

upsertPacked(db, ident, packed) ==
    [i \in DOMAIN db \cup {ident} |-> IF i = ident THEN packed ELSE db[i]]

\* The empty table.
NoRows == [i \in {} |-> EmptyMap]

\* The row of the system record of the bucket a key falls in.
SystemIdent(k) ==
    identifierForKey(MkKey("", systemKeyName, k.TrackingKey, k.Granularity, k.At))

systemDataFor(key, count) ==
    Pack([k \in {"count", "keys"} |->
            IF k = "count" THEN Num(count) ELSE Map([s \in {key} |-> Num(count)])])

\* The body of the key loop of writeWithOperation for one key, inside the
\* transaction: [ok, db].
writeKey(db, key, packed, op, count) ==
    LET ident == identifierForKey(key)
        merged == mergePackedValues(readPacked(db, ident), packed, op)
        db1 == upsertPacked(db, ident, merged.out)
        systemKey == MkKey("", systemKeyName, key.TrackingKey, key.Granularity, key.At)
        systemIdent == identifierForKey(systemKey)
        systemMerged == mergePackedValues(readPacked(db1, systemIdent),
                                          systemDataFor(SystemTrackingKey(key), count), "inc")
    IN  IF ~merged.ok THEN [ok |-> FALSE, db |-> db]
        ELSE IF ~systemMerged.ok THEN [ok |-> FALSE, db |-> db]
        ELSE [ok |-> TRUE, db |-> upsertPacked(db1, systemIdent, systemMerged.out)]

RECURSIVE writeKeys(_, _, _, _, _)
writeKeys(db, keys, packed, op, count) ==
    IF Len(keys) = 0 THEN [ok |-> TRUE, db |-> db]
    ELSE LET r == writeKey(db, Head(keys), packed, op, count)
         IN  IF r.ok THEN writeKeys(r.db, Tail(keys), packed, op, count) ELSE r

\* writeWithOperation on packed = Pack(values): [ok, db].  backendOk = FALSE is
\* a failure of the backend (Begin, Exec or Commit); every failure rolls the
\* transaction back, so db is unchanged.
writeWithOperation(db, keys, packed, op, count, backendOk) ==
    IF Len(keys) = 0 THEN [ok |-> TRUE, db |-> db]
    ELSE IF DOMAIN packed = {} THEN [ok |-> TRUE, db |-> db]
    ELSE IF ~backendOk THEN [ok |-> FALSE, db |-> db]
    ELSE LET r == writeKeys(db, keys, packed, op, count)
         IN  IF r.ok THEN r ELSE [ok |-> FALSE, db |-> db]

\* IncCount / SetCount: a count <= 0 counts as 1.
IncCount(db, keys, packed, count, backendOk) ==
    writeWithOperation(db, keys, packed, "inc", IF count <= 0 THEN 1 ELSE count, backendOk)

SetCount(db, keys, packed, count, backendOk) ==
    writeWithOperation(db, keys, packed, "set", IF count <= 0 THEN 1 ELSE count, backendOk)

\* ------------------------------------------------------------ other drivers
\* The SQLite, Redis and Mongo drivers keep one document per joined
\* identifier: a map from a field name to a number, a string or (SQLite,
\* Mongo) a nested map.

\* The commands the backend still executes before it fails; NoFault: it
\* does not fail.
NoFault == 0 - 1
Spend(left) == IF left > 0 THEN left - 1 ELSE left

\* strings.Split(key, ".") on the paths of the runs: one to three segments,
\* none of which holds a dot.
Segments ==
    {"count", "status", "meta", "duration", "keys", "events", "metric", "other",
     untrackedKeyName, systemKeyName, "a", "b", ""}

SplitResults ==
    {<<s>> : s \in Segments} \cup {<<s, t>> : s, t \in Segments}
    \cup {<<s, t, u>> : s, t, u \in Segments}

Split(key) == CHOOSE parts \in SplitResults : JoinStrings(parts, ".") = key

\* sort.Strings on the packed paths of the runs.
FieldOrder ==
    <<"a", "a.b", "b", "count", "keys.__system__key__", "keys.__untracked__",
      "keys.events", "keys.metric",
      "keys.other", "meta.duration", "status">>

SortedFields(packed) == SelectSeq(FieldOrder, LAMBDA f : f \in DOMAIN packed)

\* Unpack: every dotted key becomes a nested map, merged into the result in
\* the order Go's map iteration yields the keys.
RECURSIVE buildNested(_, _)
buildNested(parts, v) ==
    IF Len(parts) = 1 THEN [k \in {parts[1]} |-> v]
    ELSE [k \in {parts[1]} |-> Map(buildNested(Tail(parts), v))]

RECURSIVE deepMerge(_, _)
deepMerge(x, y) ==
    [k \in DOMAIN x \cup DOMAIN y |->
        IF k \notin DOMAIN y THEN x[k]
        ELSE IF k \in DOMAIN x /\ x[k].t = "map" /\ y[k].t = "map"
             THEN Map(deepMerge(x[k].m, y[k].m))
             ELSE y[k]]

RECURSIVE KeyOrders(_)
KeyOrders(S) ==
    IF S = {} THEN {<<>>}
    ELSE UNION { { <<x>> \o rest : rest \in KeyOrders(S \ {x}) } : x \in S }

RECURSIVE unpackInOrder(_, _, _)
unpackInOrder(input, order, out) ==
    IF Len(order) = 0 THEN out
    ELSE IF Head(order) = "" THEN unpackInOrder(input, Tail(order), out)
    ELSE unpackInOrder(input, Tail(order),
                       deepMerge(out, buildNested(Split(Head(order)), input[Head(order)])))

UnpackResults(input) ==
    {unpackInOrder(input, order, EmptyMap) : order \in KeyOrders(DOMAIN input)}

\* ------------------------------------------------------------------ SQLite
\* jsonPathForKey: "$." + key, which SQLite reads as one step per segment.
jsonPathForKey(key) == Split(key)

\* SQLite's json_extract and json_set on a path of one or two steps.
json_extract(data, path) ==
    IF Len(path) = 1 THEN MapGet(data, path[1])
    ELSE LET parent == MapGet(data, path[1])
         IN  IF parent.t = "map" THEN MapGet(parent.m, path[2]) ELSE NilValue

json_set(data, path, v) ==
    IF Len(path) = 1 THEN MapPut(data, path[1], v)
    ELSE LET parent == MapGet(data, path[1])
         IN  IF parent.t = "map"
             THEN MapPut(data, path[1], Map(MapPut(parent.m, path[2], v)))
             ELSE IF parent.t = "nil"
             THEN MapPut(data, path[1], Map([k \in {path[2]} |-> v]))
             ELSE data

\* The number SQLite's + takes an operand for: NULL, a text that is no number
\* and a JSON object count as 0.
sqliteNumber(v) == IF toFloat(v).ok THEN toFloat(v).f ELSE 0

\* buildJSONExpression, evaluated on the row's data: the json_set chain over
\* the sorted keys; every json_extract reads the data of before the update.
RECURSIVE buildJSONExpression(_, _, _, _, _)
buildJSONExpression(data, expr, fields, batch, op) ==
    IF Len(fields) = 0 THEN expr
    ELSE LET k == Head(fields)
             path == jsonPathForKey(k)
             v == IF op = "inc"
                  THEN Num(sqliteNumber(json_extract(data, path)) + sqliteNumber(batch[k]))
                  ELSE batch[k]
         IN  buildJSONExpression(data, json_set(expr, path, v), Tail(fields), batch, op)

\* buildWriteQuery, executed: a new row gets the flat batch as its data, a
\* row that exists gets the json_set chain.
buildWriteQuery(db, ident, batch, op) ==
    IF ident \notin DOMAIN db THEN upsertPacked(db, ident, batch)
    ELSE upsertPacked(db, ident,
                      buildJSONExpression(db[ident], db[ident], SortedFields(batch), batch, op))

\* batchWrite for at most ten fields: one batch.
SQLiteDriver_batchWrite(db, ident, packed, op) == buildWriteQuery(db, ident, packed, op)

RECURSIVE SQLiteDriver_writeKeys(_, _, _, _)
SQLiteDriver_writeKeys(db, keys, packed, op) ==
    IF Len(keys) = 0 THEN db
    ELSE LET k == Head(keys)
             db1 == SQLiteDriver_batchWrite(db, identifierForKey(k), packed, op)
             systemKey == MkKey("", systemKeyName, "", k.Granularity, k.At)
             systemData == systemDataFor(k.Key, 1)
         IN  SQLiteDriver_writeKeys(
                 SQLiteDriver_batchWrite(db1, identifierForKey(systemKey), systemData, "inc"),
                 Tail(keys), packed, op)

\* SQLiteDriver.writeWithOperation: [ok, db]; a backend failure rolls the
\* transaction back.
SQLiteDriver_writeWithOperation(db, keys, packed, op, backendOk) ==
    IF Len(keys) = 0 THEN [ok |-> TRUE, db |-> db]
    ELSE IF DOMAIN packed = {} THEN [ok |-> TRUE, db |-> db]
    ELSE IF ~backendOk THEN [ok |-> FALSE, db |-> db]
    ELSE [ok |-> TRUE, db |-> SQLiteDriver_writeKeys(db, keys, packed, op)]

\* ------------------------------------------------------------------- Redis
\* A Redis hash per joined key.  incrementPacked: one HINCRBY per field in
\* sorted order, without a transaction: [ok, db, left].  HINCRBY fails on a
\* stored value that is no number.
RECURSIVE RedisDriver_incrementPacked(_, _, _, _, _)
RedisDriver_incrementPacked(db, redisKey, fields, packed, left) ==
    IF Len(fields) = 0 THEN [ok |-> TRUE, db |-> db, left |-> left]
    ELSE LET field == Head(fields)
             delta == toFloat(packed[field])
             cur == MapGet(readPacked(db, redisKey), field)
         IN  IF ~delta.ok THEN [ok |-> FALSE, db |-> db, left |-> left]
             ELSE IF left = 0 \/ (cur.t # "nil" /\ ~toFloat(cur).ok)
             THEN [ok |-> FALSE, db |-> db, left |-> left]
             ELSE RedisDriver_incrementPacked(
                      upsertPacked(db, redisKey,
                                   MapPut(readPacked(db, redisKey), field,
                                          Num((IF cur.t = "nil" THEN 0 ELSE toFloat(cur).f)
                                              + delta.f))),
                      redisKey, Tail(fields), packed, Spend(left))

\* The system record's increment after the primary write of one key.
RedisDriver_systemWrite(db, key, count, left) ==
    LET systemKey == MkKey("", systemKeyName, key.TrackingKey, key.Granularity, key.At)
        systemData == systemDataFor(SystemTrackingKey(key), count)
    IN  RedisDriver_incrementPacked(db, Join(systemKey, Separator),
                                    SortedFields(systemData), systemData, left)

\* RedisDriver.IncCount on packed = Pack(values): [ok, db, left].
RECURSIVE RedisDriver_IncCount(_, _, _, _, _)
RedisDriver_IncCount(db, keys, packed, count, left) ==
    IF Len(keys) = 0 \/ DOMAIN packed = {} THEN [ok |-> TRUE, db |-> db, left |-> left]
    ELSE LET key == Head(keys)
             main == RedisDriver_incrementPacked(db, Join(key, Separator),
                                                 SortedFields(packed), packed, left)
             system == RedisDriver_systemWrite(main.db, key, count, main.left)
         IN  IF ~main.ok THEN main
             ELSE IF ~system.ok THEN system
             ELSE RedisDriver_IncCount(system.db, Tail(keys), packed, count, system.left)

\* RedisDriver.SetCount: one HSET of all fields per key, then the system
\* record's increment.
RECURSIVE RedisDriver_SetCount(_, _, _, _, _)
RedisDriver_SetCount(db, keys, packed, count, left) ==
    IF Len(keys) = 0 \/ DOMAIN packed = {} THEN [ok |-> TRUE, db |-> db, left |-> left]
    ELSE LET key == Head(keys)
             mainKey == Join(key, Separator)
             db1 == upsertPacked(db, mainKey,
                                 mergePackedValues(readPacked(db, mainKey), packed, "set").out)
             system == RedisDriver_systemWrite(db1, key, count, Spend(left))
         IN  IF left = 0 THEN [ok |-> FALSE, db |-> db, left |-> left]
             ELSE IF ~system.ok THEN system
             ELSE RedisDriver_SetCount(system.db, Tail(keys), packed, count, system.left)

\* parseRedisScalar on the values HGETALL returns.
parseRedisScalar(v) == IF toFloat(v).ok THEN Num(toFloat(v).f) ELSE v

\* ------------------------------------------------------------------- Mongo
\* One update of a document's data by $inc or $set on the paths data.<key>:
\* [ok, data].  The server refuses two paths of which one is a prefix of the
\* other, a step through a value that is no document, and an $inc of a
\* stored value that is no number; a refused update changes nothing.
RECURSIVE mongoApply(_, _, _, _)
mongoApply(data, fields, packed, op) ==
    IF Len(fields) = 0 THEN [ok |-> TRUE, data |-> data]
    ELSE LET path == Split(Head(fields))
             cur == json_extract(data, path)
             parent == MapGet(data, path[1])
             v == IF op = "inc"
                  THEN Num((IF cur.t = "num" THEN cur.n ELSE 0) + toFloat(packed[Head(fields)]).f)
                  ELSE packed[Head(fields)]
         IN  IF Len(path) = 2 /\ parent.t \notin {"nil", "map"}
             THEN [ok |-> FALSE, data |-> data]
             ELSE IF op = "inc" /\ cur.t \notin {"nil", "num"}
             THEN [ok |-> FALSE, data |-> data]
             ELSE mongoApply(json_set(data, path, v), Tail(fields), packed, op)

mongoUpdateOne(db, ident, update) ==
    LET fields == SortedFields(update.packed)
        conflict == \E p, q \in DOMAIN update.packed :
                       p # q /\ Len(Split(p)) = 1 /\ Split(q)[1] = p
        r == mongoApply(readPacked(db, ident), fields, update.packed, update.op)
    IN  IF conflict \/ ~r.ok THEN [ok |-> FALSE, db |-> db]
        ELSE [ok |-> TRUE, db |-> upsertPacked(db, ident, r.data)]

\* buildUpdateDocument: [ok, op, packed].
buildUpdateDocument(op, packed) ==
    IF op = "inc" /\ \E key \in DOMAIN packed : ~toFloat(packed[key]).ok
    THEN [ok |-> FALSE, op |-> op, packed |-> packed]
    ELSE [ok |-> op \in {"inc", "set"}, op |-> op, packed |-> packed]

\* The write models of writeWithOperation: per key the primary update, then
\* the system record's.
RECURSIVE mongoModels(_, _, _, _)
mongoModels(keys, packed, op, count) ==
    IF Len(keys) = 0 THEN <<>>
    ELSE LET key == Head(keys)
             systemKey == MkKey("", systemKeyName, key.TrackingKey, key.Granularity, key.At)
         IN  << [filter |-> Join(key, Separator), update |-> buildUpdateDocument(op, packed)],
                [filter |-> Join(systemKey, Separator),
                 update |-> buildUpdateDocument("inc",
                                                systemDataFor(SystemTrackingKey(key), count))] >>
             \o mongoModels(Tail(keys), packed, op, count)

\* Collection.BulkWrite, ordered and outside a transaction: the models run in
\* order up to the first that fails; what ran before stays.
RECURSIVE BulkWrite(_, _, _)
BulkWrite(db, models, left) ==
    IF Len(models) = 0 THEN [ok |-> TRUE, db |-> db]
    ELSE LET r == mongoUpdateOne(db, Head(models).filter, Head(models).update)
         IN  IF left = 0 \/ ~r.ok THEN [ok |-> FALSE, db |-> db]
             ELSE BulkWrite(r.db, Tail(models), Spend(left))

\* MongoDriver.writeWithOperation on packed = Pack(values): [ok, db].
MongoDriver_writeWithOperation(db, keys, packed, op, count, left) ==
    LET models == mongoModels(keys, packed, op, count) IN
    IF Len(keys) = 0 \/ DOMAIN packed = {} THEN [ok |-> TRUE, db |-> db]
    ELSE IF \E i \in 1..Len(models) : ~models[i].update.ok THEN [ok |-> FALSE, db |-> db]
    ELSE BulkWrite(db, models, left)

\* ------------------------------------------------------- the driver surface
Drivers == {"postgres", "sqlite", "redis", "mongo"}

\* IncCount / SetCount of the driver (Inc / Set of SQLiteDriver, which has no
\* count) on packed = Pack(values): [ok, db].
DriverWrite(driver, db, keys, packed, op, count, left) ==
    CASE driver = "postgres" -> writeWithOperation(db, keys, packed, op, count, left = NoFault)
      [] driver = "sqlite" ->
           SQLiteDriver_writeWithOperation(db, keys, packed, op, left = NoFault)
      [] driver = "redis" ->
           LET r == IF op = "inc" THEN RedisDriver_IncCount(db, keys, packed, count, left)
                    ELSE RedisDriver_SetCount(db, keys, packed, count, left)
           IN  [ok |-> r.ok, db |-> r.db]
      [] driver = "mongo" -> MongoDriver_writeWithOperation(db, keys, packed, op, count, left)

\* Get of one key: the results it can return.
DriverGet(driver, db, key) ==
    LET data == readPacked(db, Join(key, Separator)) IN
    CASE driver = "mongo" -> {data}
      [] driver = "redis" -> UnpackResults([f \in DOMAIN data |-> parseRedisScalar(data[f])])
      [] OTHER -> UnpackResults(data)

\* ------------------------------------------------------------------ buffer
\* A Buffer is a record of its fields.  driver is "nil" or the name of the
\* driver; countAware says that the driver is a CountDriver (countDriver is
\* not nil).  stopCh is "nil" or "chan".  A bufferedAction carries, beside
\* its four fields, ids: the history of the logical calls merged into it.

normalizeBufferDuration(value) == IF value <= 0 THEN 0 ELSE value

normalizeBufferSize(value) == IF value <= 0 THEN defaultBufferSize ELSE value

EmptyActions == [sig \in {} |-> NilValue]

resetQueueLocked(b) ==
    [b EXCEPT !.actionsBySig = EmptyActions, !.actionsLinear = <<>>, !.operationCount = 0]

\* NewBuffer up to the start of the worker, which startWorker models.
NewBuffer(driver, countAware, opts) ==
    resetQueueLocked(
        [driver |-> driver,
         countAware |-> countAware,
         duration |-> normalizeBufferDuration(opts.Duration),
         size |-> normalizeBufferSize(opts.Size),
         aggregate |-> opts.Aggregate /\ countAware,
         async |-> opts.Async,
         actionsBySig |-> EmptyActions,
         actionsLinear |-> <<>>,
         operationCount |-> 0,
         closed |-> FALSE,
         stopCh |-> "nil"])

\* NewBuffer starts the worker iff async and duration > 0.
StartsWorker(b) == b.async /\ b.duration > 0

startWorker(b) == [b EXCEPT !.stopCh = "chan"]

RECURSIVE signatureParts(_)
signatureParts(keys) ==
    IF Len(keys) = 0 THEN <<>>
    ELSE LET key == Head(keys)
             at == IF key.At # NilAt THEN FormatUnix(key.At) ELSE ""
         IN  <<JoinStrings(<<key.Prefix, key.Key, key.Granularity, at,
                             SystemTrackingKey(key)>>, ":")>>
             \o signatureParts(Tail(keys))

signatureFor(operation, keys) ==
    JoinStrings(<<operation>> \o signatureParts(keys), "|")

\* storeActionLocked counting unique signatures: a coalesced call does not
\* raise operationCount.
storeActionLockedPerSignature(b, operation, keys, values, id) ==
    LET sig == signatureFor(operation, keys)
        action == [operation |-> operation, keys |-> keys, values |-> values,
                   count |-> 1, ids |-> <<id>>]
    IN  IF b.aggregate /\ sig \in DOMAIN b.actionsBySig
        THEN LET existing == b.actionsBySig[sig] IN
             [b EXCEPT !.actionsBySig[sig] =
                           [existing EXCEPT !.values = IF operation = "inc"
                                                       THEN mergeIncrement(existing.values, values)
                                                       ELSE values,
                                            !.count = existing.count + 1,
                                            !.ids = existing.ids \o <<id>>]]
        ELSE IF b.aggregate
        THEN [b EXCEPT !.actionsBySig =
                           [x \in DOMAIN b.actionsBySig \cup {sig} |->
                               IF x = sig THEN action ELSE b.actionsBySig[x]],
                       !.operationCount = b.operationCount + 1]
        ELSE [b EXCEPT !.actionsLinear = Append(b.actionsLinear, action),
                       !.operationCount = b.operationCount + 1]

\* storeActionLocked as it would be if a coalesced set kept the first payload.
storeActionLockedFirstSetWins(b, operation, keys, values, id) ==
    LET sig == signatureFor(operation, keys)
        action == [operation |-> operation, keys |-> keys, values |-> values,
                   count |-> 1, ids |-> <<id>>]
    IN  IF b.aggregate /\ sig \in DOMAIN b.actionsBySig
        THEN LET existing == b.actionsBySig[sig] IN
             [b EXCEPT !.actionsBySig[sig] =
                           [existing EXCEPT !.values = IF operation = "inc"
                                                       THEN mergeIncrement(existing.values, values)
                                                       ELSE existing.values,
                                            !.count = existing.count + 1,
                                            !.ids = existing.ids \o <<id>>],
                       !.operationCount = b.operationCount + 1]
        ELSE IF b.aggregate
        THEN [b EXCEPT !.actionsBySig =
                           [x \in DOMAIN b.actionsBySig \cup {sig} |->
                               IF x = sig THEN action ELSE b.actionsBySig[x]],
                       !.operationCount = b.operationCount + 1]
        ELSE [b EXCEPT !.actionsLinear = Append(b.actionsLinear, action),
                       !.operationCount = b.operationCount + 1]

\* storeActionLocked; id names the logical call in the action's history.
storeActionLocked(b, operation, keys, values, id) ==
    IF b.aggregate
    THEN LET sig == signatureFor(operation, keys) IN
         IF sig \in DOMAIN b.actionsBySig
         THEN LET existing == b.actionsBySig[sig]
                  merged == CASE operation = "inc" -> mergeIncrement(existing.values, values)
                              [] operation = "set" -> values
                              [] OTHER -> existing.values
              IN  [b EXCEPT !.actionsBySig[sig] =
                                [existing EXCEPT !.values = merged,
                                                 !.count = existing.count + 1,
                                                 !.ids = existing.ids \o <<id>>],
                            !.operationCount = b.operationCount + 1]
         ELSE [b EXCEPT !.actionsBySig =
                            [x \in DOMAIN b.actionsBySig \cup {sig} |->
                                IF x = sig
                                THEN [operation |-> operation, keys |-> keys,
                                      values |-> values, count |-> 1, ids |-> <<id>>]
                                ELSE b.actionsBySig[x]],
                        !.operationCount = b.operationCount + 1]
    ELSE [b EXCEPT !.actionsLinear =
                       Append(b.actionsLinear,
                              [operation |-> operation, keys |-> keys,
                               values |-> values, count |-> 1, ids |-> <<id>>]),
                   !.operationCount = b.operationCount + 1]

\* All orders in which a range over the map m can visit its entries.
RECURSIVE MapOrders(_)
MapOrders(m) ==
    IF DOMAIN m = {} THEN {<<>>}
    ELSE UNION { { <<m[x]>> \o rest :
                     rest \in MapOrders([y \in DOMAIN m \ {x} |-> m[y]]) }
               : x \in DOMAIN m }

\* drainActions as it would be if it returned the linear queue newest first.
drainedActionsNewestFirst(b) ==
    IF b.operationCount = 0 THEN {<<>>}
    ELSE IF b.aggregate THEN MapOrders(b.actionsBySig)
    ELSE {[i \in 1..Len(b.actionsLinear) |->
              b.actionsLinear[Len(b.actionsLinear) + 1 - i]]}

\* drainActions: the slices it can return (the aggregated queue is a Go map,
\* ranged over in an unspecified order); the queue is reset unless it was
\* empty.
drainedActions(b) ==
    IF b.operationCount = 0 THEN {<<>>}
    ELSE IF b.aggregate THEN MapOrders(b.actionsBySig)
    ELSE {b.actionsLinear}

\* drainActions as it would be without resetQueueLocked.
drainedBufferKeepingQueue(b) == b

drainedBuffer(b) == IF b.operationCount = 0 THEN b ELSE resetQueueLocked(b)

\* One call of the driver's write surface, recorded as bufferTestDriver
\* records it: [call, operation, keys, values, count, ids, ok].
RecordedWrite(call, action, count, ok) ==
    [call |-> call, operation |-> action.operation, keys |-> action.keys,
     values |-> action.values, count |-> count, ids |-> action.ids, ok |-> ok]

\* The simple surface repeated `repetitions` times: [ok, db, log].
RECURSIVE repeatSimple(_, _, _, _, _, _)
repeatSimple(db, log, action, packed, repetitions, backendOk) ==
    IF repetitions = 0 THEN [ok |-> TRUE, db |-> db, log |-> log]
    ELSE LET r == writeWithOperation(db, action.keys, packed, action.operation, 1, backendOk)
             call == IF action.operation = "inc" THEN "Inc" ELSE "Set"
             log1 == Append(log, RecordedWrite(call, action, 1, r.ok))
         IN  IF r.ok
             THEN repeatSimple(r.db, log1, action, packed, repetitions - 1, backendOk)
             ELSE [ok |-> FALSE, db |-> db, log |-> log1]

\* dispatchAction on the driver state db and the call log: [ok, db, log].
dispatchAction(b, db, log, action, packed, backendOk) ==
    LET count == IF action.count <= 0 THEN 1 ELSE action.count IN
    IF action.operation \notin {"inc", "set"}
    THEN [ok |-> FALSE, db |-> db, log |-> log]
    ELSE IF b.countAware
    THEN LET r == IF action.operation = "inc"
                  THEN IncCount(db, action.keys, packed, count, backendOk)
                  ELSE SetCount(db, action.keys, packed, count, backendOk)
             call == IF action.operation = "inc" THEN "IncCount" ELSE "SetCount"
         IN  [ok |-> r.ok, db |-> r.db,
              log |-> Append(log, RecordedWrite(call, action, count, r.ok))]
    ELSE repeatSimple(db, log, action, packed, count, backendOk)

\* --------------------------------------------------------------- the state

VARIABLES
    cfg,      \* the Config (NoConfig when the buffer was built by NewBuffer alone)
    b,        \* the Buffer (cfg.buffer when cfg.hasBuffer)
    rows,     \* the driver's table: joined identifier -> packed data
    writes,   \* the calls the driver has received, in order
    stopped,  \* the worker's stop channel has been closed
    pc,       \* where each goroutine stands
    kind,     \* the public call each goroutine is in, or made last: [name, call]
    pending,  \* Flush's local slice: the drained actions not yet dispatched
    ret,      \* the result of the call when pc is "done"
    tx,       \* the SQL transaction each goroutine has open: [keys, packed, op, existing, local]
    lastStorage, \* history: the last two calls on the Config, [last, before, built]
    input,    \* the arguments of the call of a function without receiver state
    output,   \* what that call returned
    mark,     \* history: the writes a Flush or Shutdown call found accepted / queued
    hist      \* history: the accepted logical writes, in order of acceptance

vars == <<cfg, b, rows, writes, stopped, tx, lastStorage, input, output, pc, kind, pending, ret, mark, hist>>

Callers == {"c1", "c2"}
Worker == "w"
Procs == Callers \cup {Worker}

\* The ids of the writes a successful driver call has applied.
Applied == UNION { {w.ids[i] : i \in 1..Len(w.ids)}
                   : w \in {writes[j] : j \in {n \in 1..Len(writes) : writes[n].ok}} }

\* The ids handed to some driver call, successful or not.
Attempted == UNION { {writes[j].ids[i] : i \in 1..Len(writes[j].ids)}
                     : j \in 1..Len(writes) }

ActionIds(actions) ==
    UNION { {actions[j].ids[i] : i \in 1..Len(actions[j].ids)} : j \in 1..Len(actions) }

\* The ids waiting in the queue.
Queued ==
    ActionIds(b.actionsLinear)
    \cup UNION { {b.actionsBySig[sig].ids[i] : i \in 1..Len(b.actionsBySig[sig].ids)}
                 : sig \in DOMAIN b.actionsBySig }

\* The ids drained by a Flush that is still dispatching.
InFlight == UNION { ActionIds(pending[p]) : p \in Procs }

\* No function has been called: no arguments, no result.
NoInput == [fn |-> "none"]
NoOutput == [fn |-> "none"]

\* No goroutine has a transaction open.
NoTx == [p \in Procs |-> <<>>]

\* ------------------------------------------------------- the buffer's calls
\* Every step is one critical section of b.mu, or one driver call, or one
\* channel operation.

\* The goroutine is in no call: it has made none, or its last one returned.
Free(p) == pc[p] \in {"idle", "done"}

Call(operation, keys, values) ==
    [operation |-> operation, keys |-> keys, values |-> values]

NoCall == Call("", <<>>, EmptyMap)

Kind(name, call) == [name |-> name, call |-> call]

\* The end of a call: a caller holds the result (pc "done") until its next
\* call; the worker discards it (`_ = b.Flush()`) and goes back to its select.
Finish(p, result) ==
    IF p = Worker
    THEN /\ pc' = [pc EXCEPT ![p] = "select"]
         /\ UNCHANGED ret
    ELSE /\ pc' = [pc EXCEPT ![p] = "done"]
         /\ ret' = [ret EXCEPT ![p] = result]

\* enqueue without the closed check.
EnqueueIgnoringClosed(p, operation, keys, values) ==
    /\ Free(p)
    /\ kind' = [kind EXCEPT ![p] = Kind(IF operation = "inc" THEN "Inc" ELSE "Set",
                                        Call(operation, keys, values))]
    /\ mark' = [mark EXCEPT ![p] = {}]
    /\ IF Len(keys) = 0 \/ DOMAIN values = {}
       THEN /\ Finish(p, "nil")
            /\ UNCHANGED <<b, hist>>
       ELSE /\ Len(hist) < MaxOps
            /\ b' = storeActionLocked(b, operation, keys, values, Len(hist) + 1)
            /\ hist' = Append(hist, Call(operation, keys, values))
            /\ IF b'.operationCount >= b.size
               THEN /\ pc' = [pc EXCEPT ![p] = "flush"]
                    /\ UNCHANGED ret
               ELSE Finish(p, "nil")
    /\ UNCHANGED <<cfg, rows, writes, stopped, tx, lastStorage, input, output, pending>>

\* Inc / Set: enqueue, to the unlock.
Enqueue(p, operation, keys, values) ==
    /\ Free(p)
    /\ kind' = [kind EXCEPT ![p] = Kind(IF operation = "inc" THEN "Inc" ELSE "Set",
                                        Call(operation, keys, values))]
    /\ mark' = [mark EXCEPT ![p] = {}]
    /\ IF Len(keys) = 0 \/ DOMAIN values = {}
       THEN /\ Finish(p, "nil")
            /\ UNCHANGED <<b, hist>>
       ELSE IF b.closed
       THEN /\ Finish(p, "err")
            /\ UNCHANGED <<b, hist>>
       ELSE /\ Len(hist) < MaxOps
            /\ b' = storeActionLocked(b, operation, keys, values, Len(hist) + 1)
            /\ hist' = Append(hist, Call(operation, keys, values))
            /\ IF b'.operationCount >= b.size
               THEN /\ pc' = [pc EXCEPT ![p] = "flush"]
                    /\ UNCHANGED ret
               ELSE Finish(p, "nil")
    /\ UNCHANGED <<cfg, rows, writes, stopped, tx, lastStorage, input, output, pending>>

\* A call of Flush (by a user, or through Config.FlushBuffer).
FlushCall(p) ==
    /\ Free(p)
    /\ kind' = [kind EXCEPT ![p] = Kind("Flush", NoCall)]
    /\ mark' = [mark EXCEPT ![p] = 1..Len(hist)]
    /\ pc' = [pc EXCEPT ![p] = "flush"]
    /\ UNCHANGED <<cfg, b, rows, writes, stopped, tx, lastStorage, input, output, pending, ret, hist>>

\* Flush as it would be if the first driver call were made inside
\* drainActions' critical section, before b.mu is unlocked.
DrainDispatchingLocked(p) ==
    /\ pc[p] = "flush"
    /\ \E actions \in drainedActions(b) :
          /\ b' = drainedBuffer(b)
          /\ IF Len(actions) = 0
             THEN /\ Finish(p, "nil")
                  /\ UNCHANGED <<pending, rows, writes>>
             ELSE \E packed \in PackResults(Head(actions).values) :
                  \E r \in {dispatchAction(b, rows, writes, Head(actions), packed, TRUE)} :
                     /\ rows' = r.db
                     /\ writes' = r.log
                     /\ pending' = [pending EXCEPT ![p] = Tail(actions)]
                     /\ IF Len(actions) = 1
                        THEN Finish(p, "nil")
                        ELSE /\ pc' = [pc EXCEPT ![p] = "dispatch"]
                             /\ UNCHANGED ret
    /\ UNCHANGED <<cfg, stopped, tx, lastStorage, input, output, kind, mark, hist>>

\* Flush: drainActions, and the return of an empty drain.
Drain(p) ==
    /\ pc[p] = "flush"
    /\ \E actions \in drainedActions(b) :
          /\ b' = drainedBuffer(b)
          /\ IF Len(actions) = 0
             THEN /\ Finish(p, "nil")
                  /\ UNCHANGED pending
             ELSE /\ pc' = [pc EXCEPT ![p] = "dispatch"]
                  /\ pending' = [pending EXCEPT ![p] = actions]
                  /\ UNCHANGED ret
    /\ UNCHANGED <<cfg, rows, writes, stopped, tx, lastStorage, input, output, kind, mark, hist>>

\* Flush: one turn of the dispatch loop; backends is the set of outcomes the
\* backend can have (TRUE: it works).
Dispatch(p, backends) ==
    /\ pc[p] = "dispatch"
    /\ \E backendOk \in backends, packed \in PackResults(Head(pending[p]).values) :
          \E r \in {dispatchAction(b, rows, writes, Head(pending[p]), packed, backendOk)} :
          /\ rows' = r.db
          /\ writes' = r.log
          /\ IF ~r.ok
             THEN /\ pending' = [pending EXCEPT ![p] = <<>>]
                  /\ Finish(p, "err")
             ELSE /\ pending' = [pending EXCEPT ![p] = Tail(pending[p])]
                  /\ IF Len(pending[p]) = 1
                     THEN Finish(p, "nil")
                     ELSE UNCHANGED <<pc, ret>>
    /\ UNCHANGED <<cfg, b, stopped, tx, lastStorage, input, output, kind, mark, hist>>

\* Shutdown: the critical section.
ShutdownCall(p) ==
    /\ Free(p)
    /\ kind' = [kind EXCEPT ![p] = Kind("Shutdown", NoCall)]
    /\ mark' = [mark EXCEPT ![p] = IF b.closed THEN {} ELSE Queued]
    /\ IF b.closed
       THEN /\ Finish(p, "nil")
            /\ UNCHANGED b
       ELSE /\ b' = [b EXCEPT !.closed = TRUE, !.stopCh = "nil"]
            /\ pc' = [pc EXCEPT ![p] = IF b.stopCh # "nil" THEN "close" ELSE "flush"]
            /\ UNCHANGED ret
    /\ UNCHANGED <<cfg, rows, writes, stopped, tx, lastStorage, input, output, pending, hist>>

\* Shutdown: close(stopCh).
ShutdownClose(p) ==
    /\ pc[p] = "close"
    /\ stopped' = TRUE
    /\ pc' = [pc EXCEPT ![p] = "wait"]
    /\ UNCHANGED <<cfg, b, rows, writes, tx, lastStorage, input, output, kind, pending, ret, mark, hist>>

\* Shutdown: b.wg.Wait() returns once the worker has exited.
ShutdownWait(p) ==
    /\ pc[p] = "wait"
    /\ pc[Worker] = "exited"
    /\ pc' = [pc EXCEPT ![p] = "flush"]
    /\ UNCHANGED <<cfg, b, rows, writes, stopped, tx, lastStorage, input, output, kind, pending, ret, mark, hist>>

\* The worker's select: the ticker fired.
WorkerTick ==
    /\ pc[Worker] = "select"
    /\ pc' = [pc EXCEPT ![Worker] = "flush"]
    /\ UNCHANGED <<cfg, b, rows, writes, stopped, tx, lastStorage, input, output, kind, pending, ret, mark, hist>>

\* The worker's select: the stop channel is closed.
WorkerStop ==
    /\ pc[Worker] = "select"
    /\ stopped
    /\ pc' = [pc EXCEPT ![Worker] = "exited"]
    /\ UNCHANGED <<cfg, b, rows, writes, stopped, tx, lastStorage, input, output, kind, pending, ret, mark, hist>>

\* ------------------------------------------- the buffer under concurrency

\* A Config: the driver whose table is rows (PostgresDriver unless the run
\* sets another), the buffer fields, the granularities, and whether c.buffer
\* is set; TimeZone and BeginningOfWeek are DefaultConfig's. Granularities is
\* a list; nilGranularities says that the slice is nil (the list is then
\* empty).
Config(enabled, opts, granularities, hasBuffer) ==
    [Driver |-> "postgres", BufferEnabled |-> enabled, BufferDuration |-> opts.Duration,
     BufferSize |-> opts.Size, BufferAggregate |-> opts.Aggregate,
     BufferAsync |-> opts.Async, Granularities |-> granularities,
     nilGranularities |-> FALSE, TimeZone |-> "GMT", BeginningOfWeek |-> 1,
     hasBuffer |-> hasBuffer]

Options(duration, size, aggregate, async) ==
    [Duration |-> duration, Size |-> size, Aggregate |-> aggregate, Async |-> async]

\* No Config: the buffer was built by NewBuffer alone.
NoConfig == Config(FALSE, Options(0, 0, FALSE, FALSE), <<>>, FALSE)

\* What Config.Storage returned: a Buffer (id: the how-manieth buffer the
\* Config built), the raw driver, or nil.
Returned(storage, id) == [storage |-> storage, id |-> id]

\* A call on the Config: its name, the Config as the call left it and what
\* the call returned.
ConfigCall(name, c, result) == [name |-> name, cfg |-> c, result |-> result]

\* No call has been made on the Config.  last is the last call, before the
\* name and the result of the one before it, built counts the buffers the
\* Config has built.
NoStorage ==
    [last |-> ConfigCall("none", NoConfig, Returned("none", 0)),
     before |-> [name |-> "none", result |-> Returned("none", 0)],
     built |-> 0]

\* The history after one more call.
AfterCall(history, name, c, result, built) ==
    [last |-> ConfigCall(name, c, result),
     before |-> [name |-> history.last.name, result |-> history.last.result],
     built |-> built]

K1 == <<MkKey("", "metric", "", "1h", 0)>>
V1 == [k \in {"count"} |-> Num(1)]

\* The state after NewBuffer(driver, opts); callers are the goroutines that
\* will call the buffer.
InitBuffer(countAware, opts, callers) ==
    LET nb == NewBuffer("pg", countAware, opts) IN
    /\ cfg = NoConfig
    /\ b = IF StartsWorker(nb) THEN startWorker(nb) ELSE nb
    /\ rows = [i \in {} |-> EmptyMap]
    /\ writes = <<>>
    /\ stopped = FALSE
    /\ tx = NoTx
    /\ lastStorage = NoStorage
    /\ input = NoInput
    /\ output = NoOutput
    /\ pc = [p \in Procs |-> IF p = Worker
                             THEN IF StartsWorker(nb) THEN "select" ELSE "off"
                             ELSE IF p \in callers THEN "idle" ELSE "off"]
    /\ kind = [p \in Procs |-> Kind(IF p = Worker THEN "Worker" ELSE "none", NoCall)]
    /\ pending = [p \in Procs |-> <<>>]
    /\ ret = [p \in Procs |-> "none"]
    /\ mark = [p \in Procs |-> {}]
    /\ hist = <<>>

\* Two goroutines call a buffer that has no worker.
SyncOptions ==
    {Options(0, 1, FALSE, FALSE), Options(0, MaxSize, FALSE, FALSE),
     Options(0, MaxSize, TRUE, FALSE)}

\* The writes of the callers: an Inc, a Set, and an Inc without keys.
SyncCalls == {Call("inc", K1, V1), Call("set", K1, V1), Call("inc", <<>>, V1)}

Init == \E opts \in SyncOptions : InitBuffer(TRUE, opts, Callers)

Next ==
    \/ \E p \in Callers, call \in SyncCalls :
          Enqueue(p, call.operation, call.keys, call.values)
    \/ \E p \in Callers : FlushCall(p)
    \/ \E p \in Callers : Drain(p)
    \/ \E p \in Callers : Dispatch(p, BOOLEAN)
    \/ \E p \in Callers : ShutdownCall(p)

Spec == Init /\ [][Next]_vars

\* One goroutine calls a buffer whose worker ticks.
AsyncOptions ==
    {Options(1, size, aggregate, TRUE) : size \in {0, MaxSize}, aggregate \in BOOLEAN}
    \cup {Options(0, 1, FALSE, TRUE), Options(1, 1, TRUE, FALSE)}

InitAsync == \E opts \in AsyncOptions : InitBuffer(TRUE, opts, {"c1"})

NextAsync ==
    \/ \E operation \in {"inc", "set"}, keys \in {K1, <<>>} :
          Enqueue("c1", operation, keys, V1)
    \/ FlushCall("c1")
    \/ \E p \in {"c1", Worker} : Drain(p)
    \/ \E p \in {"c1", Worker} : Dispatch(p, BOOLEAN)
    \/ ShutdownCall("c1")
    \/ ShutdownClose("c1")
    \/ ShutdownWait("c1")
    \/ WorkerTick
    \/ WorkerStop

SpecAsync == InitAsync /\ [][NextAsync]_vars

\* The ticker keeps firing and the worker, once scheduled, runs: its Flush
\* drains and dispatches (the backend may still fail each call).
\* and a call that has begun runs on to its return.
FairAsync ==
    /\ SpecAsync
    /\ WF_vars(WorkerTick)
    /\ WF_vars(WorkerStop)
    /\ \A p \in {"c1", Worker} : WF_vars(Drain(p)) /\ WF_vars(Dispatch(p, BOOLEAN))
    /\ WF_vars(ShutdownClose("c1"))
    /\ WF_vars(ShutdownWait("c1"))

\* One goroutine only enqueues; the worker's ticks alone flush what stays
\* below the size.
TickOptions ==
    {Options(1, size, aggregate, TRUE) : size \in {0, MaxSize}, aggregate \in BOOLEAN}

InitTick == \E opts \in TickOptions : InitBuffer(TRUE, opts, {"c1"})

NextTick ==
    \/ \E operation \in {"inc", "set"} : Enqueue("c1", operation, K1, V1)
    \/ \E p \in {"c1", Worker} : Drain(p)
    \/ \E p \in {"c1", Worker} : Dispatch(p, BOOLEAN)
    \/ WorkerTick

SpecTick == InitTick /\ [][NextTick]_vars

\* The ticker keeps firing, and a Flush that has begun runs on to its return
\* (the backend may still fail each call).
FairTick ==
    /\ SpecTick
    /\ WF_vars(WorkerTick)
    /\ \A p \in {"c1", Worker} : WF_vars(Drain(p)) /\ WF_vars(Dispatch(p, BOOLEAN))

\* One goroutine calls an aggregating or linear buffer with payloads of every
\* shape: nested, a key that is a leaf in one payload and a mapping in
\* another, numeric strings, non-numeric leaves.  The backend works.
K2 == <<MkKey("", "other", "", "1h", 0)>>

Nested(count, requests) ==
    [k \in {"count", "nested"} |->
        IF k = "count" THEN Num(count) ELSE Map([r \in {"requests"} |-> Num(requests)])]

SeqValues ==
    {Nested(1, 1), Nested(2, 3),
     [k \in {"count"} |-> Map([r \in {"requests"} |-> Num(1)])],
     [k \in {"count"} |-> Str("2")],
     [k \in {"count"} |-> Str("x")]}

SeqOptions ==
    {Options(0, size, aggregate, FALSE) : size \in {0, MaxSize}, aggregate \in BOOLEAN}

InitSeq == \E opts \in SeqOptions : InitBuffer(TRUE, opts, {"c1"})

NextSeq ==
    \/ \E operation \in {"inc", "set"}, keys \in {K1, K2}, values \in SeqValues :
          Enqueue("c1", operation, keys, values)
    \/ FlushCall("c1")
    \/ Drain("c1")
    \/ Dispatch("c1", {TRUE})

SpecSeq == InitSeq /\ [][NextSeq]_vars

\* One goroutine calls a buffer that cannot aggregate: aggregation is off, or
\* the driver has no IncCount / SetCount (nonCountBufferDriver).  Driver calls
\* may fail.
LinearSetups ==
    {<<countAware, Options(0, size, aggregate, FALSE)>> :
        countAware \in BOOLEAN, size \in {0, MaxSize}, aggregate \in BOOLEAN}
    \ {<<TRUE, Options(0, size, TRUE, FALSE)>> : size \in {0, MaxSize}}

InitLinear == \E setup \in LinearSetups : InitBuffer(setup[1], setup[2], {"c1"})

NextLinear ==
    \/ \E operation \in {"inc", "set"}, keys \in {K1, K2}, values \in {V1, Nested(1, 1)} :
          Enqueue("c1", operation, keys, values)
    \/ FlushCall("c1")
    \/ Drain("c1")
    \/ Dispatch("c1", BOOLEAN)

SpecLinear == InitLinear /\ [][NextLinear]_vars

\* ------------------------------------------------------ Track and Config
\* The bytes of the granularity strings the runs use.
Chars(s) ==
    CASE s = "" -> <<>>
      [] s = "1s" -> <<"1", "s">>
      [] s = "1m" -> <<"1", "m">>
      [] s = "15m" -> <<"1", "5", "m">>
      [] s = "0m" -> <<"0", "m">>
      [] s = "1h" -> <<"1", "h">>
      [] s = "1d" -> <<"1", "d">>
      [] s = "1w" -> <<"1", "w">>
      [] s = "1mo" -> <<"1", "m", "o">>
      [] s = "1q" -> <<"1", "q">>
      [] s = "1y" -> <<"1", "y">>
      [] s = "hour" -> <<"h", "o", "u", "r">>
      [] s = "invalid" -> <<"i", "n", "v", "a", "l", "i", "d">>

\* ch is in '0'..'9'.
IsDigit(ch) == ch \in {"0", "1", "2", "3", "4", "5", "6", "7", "8", "9"}

\* int(ch - '0').
DigitValue(ch) ==
    CASE ch = "0" -> 0 [] ch = "1" -> 1 [] ch = "2" -> 2 [] ch = "3" -> 3
      [] ch = "4" -> 4 [] ch = "5" -> 5 [] ch = "6" -> 6 [] ch = "7" -> 7
      [] ch = "8" -> 8 [] ch = "9" -> 9

\* atoi, n being the number read so far: [ok, n].  (The inputs are too
\* short for n to leave the range of int.)
RECURSIVE atoi(_, _)
atoi(s, n) ==
    IF Len(s) = 0 THEN [ok |-> TRUE, n |-> n]
    ELSE IF ~IsDigit(Head(s)) THEN [ok |-> FALSE, n |-> 0]
    ELSE atoi(Tail(s), n * 10 + DigitValue(Head(s)))

\* The keys of unitMap; a Unit is written as its key.
unitMap == {"s", "m", "h", "d", "w", "mo", "q", "y"}

\* The index of the first byte of s, from i on, that is no digit; 0 if
\* there is none.
RECURSIVE firstNonDigit(_, _)
firstNonDigit(s, i) ==
    IF i > Len(s) THEN 0
    ELSE IF ~IsDigit(s[i]) THEN i
    ELSE firstNonDigit(s, i + 1)

\* ParseGranularity on the bytes of its argument: [offset, unit, ok].
parseGranularityBytes(s) ==
    LET failed == [offset |-> 0, unit |-> "s", ok |-> FALSE]
        i == firstNonDigit(s, 1)
        offsetPart == SubSeq(s, 1, i - 1)
        unitStr == JoinStrings(SubSeq(s, i, Len(s)), "")
    IN  IF i = 0 THEN failed
        ELSE IF Len(offsetPart) = 0 THEN failed
        ELSE IF ~atoi(offsetPart, 0).ok THEN failed
        ELSE IF unitStr \notin unitMap THEN failed
        ELSE [offset |-> atoi(offsetPart, 0).n, unit |-> unitStr, ok |-> TRUE]

\* ParseGranularity: [offset, unit, ok].
ParseGranularity(s) == parseGranularityBytes(Chars(s))

\* NewParser and Parser.Valid.
NewParser(s) ==
    LET r == ParseGranularity(s)
    IN  IF r.ok THEN [String |-> s, Offset |-> r.offset, Unit |-> r.unit]
        ELSE [String |-> s, Offset |-> 0, Unit |-> "s"]

Valid(parser) == parser.Offset > 0

DefaultGranularities == <<"1m", "1h", "1d", "1w", "1mo", "1q", "1y">>

\* The loop of EffectiveGranularities: the first occurrence of every entry
\* of base that parses.
RECURSIVE effective(_, _)
effective(base, seen) ==
    IF Len(base) = 0 THEN <<>>
    ELSE LET g == Head(base) IN
         IF g \in seen \/ ~ParseGranularity(g).ok
         THEN effective(Tail(base), seen)
         ELSE <<g>> \o effective(Tail(base), seen \cup {g})

\* Config.EffectiveGranularities: nil Granularities mean the default list.
EffectiveGranularities(c) ==
    effective(IF c.nilGranularities THEN DefaultGranularities ELSE c.Granularities, {})

\* ---------------------------------------------------------------------
\* Instants and zones. A time.Time is its Unix time, a number of seconds;
\* every function of nocturnal.go first moves it into the Config's
\* Location, so the zone is carried by the Config. Weekdays are Go's:
\* Sunday = 0 .. Saturday = 6.  A local variable of the code is a bound
\* variable here, {e(x) : x \in {value}}, so that it is computed once.
\* ---------------------------------------------------------------------
\* The member of a set of one member.
Only(S) == CHOOSE v \in S : TRUE

Sunday == 0

Monday == 1

secondsPerMinute == 60

secondsPerHour == 3600

secondsPerDay == 86400

\* The days from 1970-01-01 to the day-th day of a month (1..12) of the
\* proleptic Gregorian calendar; day may lie outside the month.
daysSinceEpoch(year, month, day) ==
    LET y == IF month <= 2 THEN year - 1 ELSE year
        era == y \div 400
        yoe == y - era * 400
        mp == IF month > 2 THEN month - 3 ELSE month + 9
        doy == (153 * mp + 2) \div 5 + day - 1
        doe == yoe * 365 + yoe \div 4 - yoe \div 100 + doy
    IN  era * 146097 + doe - 719468

\* The calendar date of a day counted from 1970-01-01.
civil(days) ==
    LET z == days + 719468
        era == z \div 146097
        doe == z - era * 146097
        yoe == (doe - doe \div 1460 + doe \div 36524 - doe \div 146096) \div 365
        doy == doe - (365 * yoe + yoe \div 4 - yoe \div 100)
        mp == (5 * doy + 2) \div 153
        month == IF mp < 10 THEN mp + 3 ELSE mp - 9
    IN  [year |-> IF month <= 2 THEN yoe + era * 400 + 1 ELSE yoe + era * 400,
         month |-> month,
         day |-> doy - (153 * mp + 2) \div 5 + 1]

\* time.UTC, and what time.LoadLocation gives for a name: "GMT" and "UTC"
\* have no offset; "America/New_York" is five hours behind, four in summer;
\* any other name fails to load.
UTC == [name |-> "UTC", std |-> 0, dst |-> 0]

LoadLocation(name) ==
    CASE name \in {"GMT", "UTC"} -> [loc |-> [name |-> name, std |-> 0, dst |-> 0], ok |-> TRUE]
      [] name = "America/New_York" ->
            [loc |-> [name |-> name, std |-> 0 - 5 * secondsPerHour,
                      dst |-> 0 - 4 * secondsPerHour], ok |-> TRUE]
      [] OTHER -> [loc |-> UTC, ok |-> FALSE]

\* Config.Location: UTC for an empty or unknown TimeZone.
Location(c) ==
    IF c.TimeZone = "" THEN UTC
    ELSE IF ~LoadLocation(c.TimeZone).ok THEN UTC
    ELSE LoadLocation(c.TimeZone).loc

\* The day of the month of its n-th Sunday.
nthSunday(year, month, n) ==
    LET first == (daysSinceEpoch(year, month, 1) + 4) % 7
    IN  1 + ((7 - first) % 7) + 7 * (n - 1)

\* The instants at which summer time starts and ends in a year: 02:00 of
\* the second Sunday of March and of the first Sunday of November, local.
dstStart(loc, year) ==
    daysSinceEpoch(year, 3, nthSunday(year, 3, 2)) * secondsPerDay
        + 2 * secondsPerHour - loc.std

dstEnd(loc, year) ==
    daysSinceEpoch(year, 11, nthSunday(year, 11, 1)) * secondsPerDay
        + 2 * secondsPerHour - loc.dst

\* Location.lookup: the offset in force at an instant, and the instants
\* [start, end) between which it is in force.
lookup(loc, unix) ==
    IF loc.std = loc.dst THEN [offset |-> loc.std, start |-> unix, end |-> unix + 1]
    ELSE Only({IF unix < dstStart(loc, year)
               THEN [offset |-> loc.std, start |-> dstEnd(loc, year - 1),
                     end |-> dstStart(loc, year)]
               ELSE IF unix < dstEnd(loc, year)
               THEN [offset |-> loc.dst, start |-> dstStart(loc, year),
                     end |-> dstEnd(loc, year)]
               ELSE [offset |-> loc.std, start |-> dstEnd(loc, year),
                     end |-> dstStart(loc, year + 1)] :
                  year \in {civil(unix \div secondsPerDay).year}})

\* time.Date: the instant of a wall clock reading in a Location. Months and
\* days out of range carry over; the offset is the one found at the reading
\* taken as UTC, or, if the result is outside that offset's period, the one
\* found at the result.
Date(year, month, day, hour, min, sec, loc) ==
    Only({Only({IF zone.offset = 0 THEN unix
                ELSE IF unix - zone.offset < zone.start \/ unix - zone.offset >= zone.end
                THEN unix - lookup(loc, unix - zone.offset).offset
                ELSE unix - zone.offset :
                   zone \in {lookup(loc, unix)}}) :
             unix \in {(daysSinceEpoch(year + (month - 1) \div 12,
                                       ((month - 1) % 12) + 1, 1) + day - 1) * secondsPerDay
                          + hour * secondsPerHour + min * secondsPerMinute + sec}})

\* t.Year(), t.Month(), ... of an instant in a Location.
Clock(t, loc) ==
    Only({Only({[Year |-> date.year, Month |-> date.month, Day |-> date.day,
                 Hour |-> (wall % secondsPerDay) \div secondsPerHour,
                 Minute |-> (wall % secondsPerHour) \div secondsPerMinute,
                 Second |-> wall % secondsPerMinute,
                 YearDay |-> wall \div secondsPerDay - daysSinceEpoch(date.year, 1, 1) + 1,
                 Weekday |-> (wall \div secondsPerDay + 4) % 7] :
                   date \in {civil(wall \div secondsPerDay)}}) :
             wall \in {t + lookup(loc, t).offset}})

\* t.AddDate(years, months, days).
AddDate(t, loc, years, months, days) ==
    Only({Date(at.Year + years, at.Month + months, at.Day + days,
               at.Hour, at.Minute, at.Second, loc) :
             at \in {Clock(t, loc)}})

NewNocturnal(t, c) == [Time |-> t, Config |-> c]

configBeginningOfWeek(n) == n.Config.BeginningOfWeek

daysIntoWeek(day) == IF day \in 0..6 THEN day ELSE 1

mod(a, m) == a % m

daysInMonth(year, month) ==
    Only({Clock(last, UTC).Day : last \in {Date(year, month + 1, 0, 0, 0, 0, UTC)}})

addMonths(t, loc, months) ==
    Only({Only({Only({Date(total \div 12, (total % 12) + 1,
                           IF at.Day > maxDay THEN maxDay ELSE at.Day,
                           at.Hour, at.Minute, at.Second, loc) :
                         maxDay \in {daysInMonth(total \div 12, (total % 12) + 1)}}) :
                   total \in {(at.Year * 12 + (at.Month - 1)) + months}}) :
             at \in {Clock(t, loc)}})

addYears(t, loc, years) ==
    Only({Only({Date(at.Year + years, at.Month,
                     IF at.Day > maxDay THEN maxDay ELSE at.Day,
                     at.Hour, at.Minute, at.Second, loc) :
                   maxDay \in {daysInMonth(at.Year + years, at.Month)}}) :
             at \in {Clock(t, loc)}})

\* Nocturnal.Add: the instant one offset of the unit later.
Add(n, offset, unit) ==
    LET t == n.Time
        loc == Location(n.Config)
    IN  IF offset = 0 THEN t
        ELSE CASE unit = "s" -> t + offset
               [] unit = "m" -> t + offset * secondsPerMinute
               [] unit = "h" -> t + offset * secondsPerHour
               [] unit = "d" -> AddDate(t, loc, 0, 0, offset)
               [] unit = "w" -> AddDate(t, loc, 0, 0, offset * 7)
               [] unit = "mo" -> addMonths(t, loc, offset)
               [] unit = "q" -> addMonths(t, loc, offset * 3)
               [] unit = "y" -> addYears(t, loc, offset)

\* Nocturnal.Floor: the bucket boundary of the instant for a positive
\* offset of the unit (the function panics for any other offset).
Floor(n, offset, unit) ==
    Only({CASE offset > 0 /\ unit = "s" ->
                 Date(at.Year, at.Month, at.Day, at.Hour, at.Minute,
                      (at.Second \div offset) * offset, loc)
            [] offset > 0 /\ unit = "m" ->
                 Date(at.Year, at.Month, at.Day, at.Hour,
                      (at.Minute \div offset) * offset, 0, loc)
            [] offset > 0 /\ unit = "h" ->
                 Date(at.Year, at.Month, at.Day, (at.Hour \div offset) * offset, 0, 0, loc)
            [] offset > 0 /\ unit = "d" ->
                 Only({AddDate(yearStart, loc, 0, 0, ((at.YearDay - 1) \div offset) * offset) :
                          yearStart \in {Date(at.Year, 1, 1, 0, 0, 0, loc)}})
            [] offset > 0 /\ unit = "w" ->
                 Only({Only({Only({
                    IF t < firstWeekStart THEN yearStart
                    ELSE AddDate(firstWeekStart, loc, 0, 0,
                                 (((t - firstWeekStart) \div (24 * 7 * secondsPerHour))
                                      \div offset) * offset * 7) :
                       firstWeekStart \in {AddDate(yearStart, loc, 0, 0, daysToFirst)}}) :
                       daysToFirst \in {mod(daysIntoWeek(configBeginningOfWeek(n))
                                               - Clock(yearStart, loc).Weekday, 7)}}) :
                       yearStart \in {Date(at.Year, 1, 1, 0, 0, 0, loc)}})
            [] offset > 0 /\ unit = "mo" ->
                 Date(at.Year, (((at.Month - 1) \div offset) * offset) + 1, 1, 0, 0, 0, loc)
            [] offset > 0 /\ unit = "q" ->
                 Date(at.Year, ((((at.Month - 1) \div 3) \div offset) * offset) * 3 + 1,
                      1, 0, 0, 0, loc)
            [] offset > 0 /\ unit = "y" ->
                 Date((at.Year \div offset) * offset, 1, 1, 0, 0, 0, loc) :
             t \in {n.Time}, loc \in {Location(n.Config)},
             at \in {Clock(n.Time, Location(n.Config))}})

\* The points one call of Timeline holds at most in the model: the loop is
\* left after MaxPoints points (no range offered has that many).
MaxPoints == MaxLen + 3

\* The loop that stops before the bucket of the end, not after it.
RECURSIVE timelineLoopBefore(_, _, _, _, _, _)
timelineLoopBefore(list, t, end, offset, unit, c) ==
    IF t >= end \/ Len(list) >= MaxPoints THEN list
    ELSE Only({timelineLoopBefore(points, next, end, offset, unit, c) :
                  points \in {Append(list, t)},
                  next \in {Add(NewNocturnal(t, c), offset, unit)}})

\* The loop of Timeline from the point t on.
RECURSIVE timelineLoop(_, _, _, _, _, _)
timelineLoop(list, t, end, offset, unit, c) ==
    IF t > end \/ Len(list) >= MaxPoints THEN list
    ELSE Only({timelineLoop(points, next, end, offset, unit, c) :
                  points \in {Append(list, t)},
                  next \in {Add(NewNocturnal(t, c), offset, unit)}})

\* Timeline: the bucket boundaries from Floor(from) to Floor(to).
Timeline(from, to, offset, unit, c) ==
    Only({timelineLoop(<<>>, start, end, offset, unit, c) :
             start \in {Floor(NewNocturnal(from, c), offset, unit)},
             end \in {Floor(NewNocturnal(to, c), offset, unit)}})

\* The keys trackOrAssert builds: one per valid effective granularity.
RECURSIVE granularityKeys(_, _, _, _, _)
granularityKeys(c, granularities, key, trackingKey, at) ==
    IF Len(granularities) = 0 THEN <<>>
    ELSE LET parser == NewParser(Head(granularities))
             rest == granularityKeys(c, Tail(granularities), key, trackingKey, at)
         IN  IF ~Valid(parser) THEN rest
             ELSE <<MkKey("", key, trackingKey, Head(granularities),
                          Floor(NewNocturnal(at, c), parser.Offset, parser.Unit))>> \o rest

\* The zero-value Buffer; it stands for c.buffer == nil.
ZeroBuffer ==
    [driver |-> "nil", countAware |-> FALSE, duration |-> 0, size |-> 0,
     aggregate |-> FALSE, async |-> FALSE, actionsBySig |-> EmptyActions,
     actionsLinear |-> <<>>, operationCount |-> 0, closed |-> FALSE,
     stopCh |-> "nil"]

\* supportsCountDriver: SQLiteDriver and the tests' nonCountBufferDriver have
\* Inc and Set only; nil has nothing.
supportsCountDriver(driver) == driver \notin {"sqlite", "nonCount", "nil"}

\* sameDriver: drivers are pointers, compared by identity.
sameDriver(x, y) == x = y

\* Buffer.matches as it would be if it compared the options as configured.
matchesUnnormalized(buffer, c) ==
    /\ sameDriver(buffer.driver, c.Driver)
    /\ buffer.duration = c.BufferDuration
    /\ buffer.size = c.BufferSize
    /\ buffer.aggregate = (c.BufferAggregate /\ supportsCountDriver(c.Driver))
    /\ buffer.async = c.BufferAsync

\* Buffer.matches against the Config's fields.
matches(buffer, c) ==
    /\ sameDriver(buffer.driver, c.Driver)
    /\ buffer.duration = normalizeBufferDuration(c.BufferDuration)
    /\ buffer.size = normalizeBufferSize(c.BufferSize)
    /\ buffer.aggregate = (c.BufferAggregate /\ supportsCountDriver(c.Driver))
    /\ buffer.async = c.BufferAsync

\* Track / Assert: trackOrAssert, with the driver call it ends in.
trackOrAssert(p, op, key, at, values, trackingKey) ==
    /\ Free(p)
    /\ Len(hist) < MaxOps
    /\ \E keys \in {granularityKeys(cfg, EffectiveGranularities(cfg), key, trackingKey, at)},
          packed \in PackResults(values) :
          \E r \in {DriverWrite(cfg.Driver, rows, keys, packed, op, 1, NoFault)} :
             /\ rows' = r.db
             /\ writes' = Append(writes,
                                 RecordedWrite(IF op = "inc" THEN "Inc" ELSE "Set",
                                               [operation |-> op, keys |-> keys,
                                                values |-> values, count |-> 1,
                                                ids |-> <<Len(hist) + 1>>],
                                               1, r.ok))
             /\ hist' = Append(hist, Call(op, keys, values))
             /\ kind' = [kind EXCEPT ![p] = Kind(IF op = "inc" THEN "Track" ELSE "Assert",
                                                 Call(op, keys, values))]
             /\ Finish(p, IF r.ok THEN "nil" ELSE "err")
    /\ mark' = [mark EXCEPT ![p] = {}]
    /\ UNCHANGED <<cfg, b, stopped, tx, lastStorage, input, output, pending>>

\* Buffer.Flush from the drained slice to its return; the backend fails
\* after `left` dispatched actions: [ok, db, log].
RECURSIVE flushActions(_, _, _, _, _)
flushActions(buffer, db, log, actions, left) ==
    IF Len(actions) = 0 THEN [ok |-> TRUE, db |-> db, log |-> log]
    ELSE Only({IF ~r.ok THEN r
               ELSE flushActions(buffer, r.db, r.log, Tail(actions), Spend(left)) :
                  r \in {dispatchAction(buffer, db, log, Head(actions),
                                        Pack(Head(actions).values), left # 0)}})

\* Buffer.Shutdown from its call to its return, the worker being in its
\* select (or absent): [b, ok, db, log].
Shutdown(buffer, db, log, actions, left) ==
    IF buffer.closed
    THEN [b |-> buffer, ok |-> TRUE, db |-> db, log |-> log]
    ELSE Only({[b |-> [drainedBuffer(buffer) EXCEPT !.closed = TRUE, !.stopCh = "nil"],
                ok |-> r.ok, db |-> r.db, log |-> r.log] :
                  r \in {flushActions(buffer, db, log, actions, left)}})

\* Config.shutdownBufferLocked: [b, db, log]; the result of Shutdown is
\* discarded.
shutdownBufferLocked(c, buffer, db, log, actions, left) ==
    IF ~c.hasBuffer THEN [b |-> buffer, db |-> db, log |-> log]
    ELSE Only({[b |-> r.b, db |-> r.db, log |-> r.log] :
                  r \in {Shutdown(buffer, db, log, actions, left)}})

\* The worker of a buffer that Shutdown closes sees the closed channel and
\* exits; wg.Wait returns then.
WorkerAfterShutdown(c, buffer) ==
    IF c.hasBuffer /\ ~buffer.closed /\ buffer.stopCh # "nil" THEN "exited" ELSE pc[Worker]

\* Config.Storage, holding c.bufferMu from the first line to the return; the
\* backend fails after `left` actions of the final flush, left in lefts.
Storage(p, lefts) ==
    /\ Free(p)
    /\ pc[Worker] \in {"off", "select", "exited"}
    /\ kind' = [kind EXCEPT ![p] = Kind("Storage", NoCall)]
    /\ mark' = [mark EXCEPT ![p] = IF cfg.hasBuffer /\ ~b.closed THEN Queued ELSE {}]
    /\ ret' = [ret EXCEPT ![p] = "nil"]
    /\ IF cfg.BufferEnabled /\ cfg.Driver # "nil" /\ cfg.hasBuffer /\ matches(b, cfg)
       THEN /\ lastStorage' = AfterCall(lastStorage, "Storage", cfg,
                                        Returned("buffer", lastStorage.built),
                                        lastStorage.built)
            /\ pc' = [pc EXCEPT ![p] = "done"]
            /\ UNCHANGED <<cfg, b, rows, writes, stopped>>
       ELSE \E actions \in drainedActions(b), left \in lefts :
               \E down \in {shutdownBufferLocked(cfg, b, rows, writes, actions, left)} :
                  /\ rows' = down.db
                  /\ writes' = down.log
                  /\ IF ~cfg.BufferEnabled \/ cfg.Driver = "nil"
                     THEN /\ b' = down.b
                          /\ cfg' = [cfg EXCEPT !.hasBuffer = FALSE]
                          /\ lastStorage' =
                                AfterCall(lastStorage, "Storage", cfg',
                                          IF ~cfg.BufferEnabled /\ cfg.Driver # "nil"
                                          THEN Returned("driver", 0)
                                          ELSE Returned("nil", 0),
                                          lastStorage.built)
                          /\ pc' = [pc EXCEPT ![p] = "done",
                                              ![Worker] = WorkerAfterShutdown(cfg, b)]
                          /\ stopped' = (stopped \/ pc'[Worker] # pc[Worker])
                     ELSE \E nb \in {NewBuffer(cfg.Driver, supportsCountDriver(cfg.Driver),
                                                 Options(cfg.BufferDuration, cfg.BufferSize,
                                                         cfg.BufferAggregate, cfg.BufferAsync))} :
                              /\ lastStorage.built < MaxBuilt
                              /\ b' = IF StartsWorker(nb) THEN startWorker(nb) ELSE nb
                              /\ cfg' = [cfg EXCEPT !.hasBuffer = TRUE]
                              /\ lastStorage' =
                                    AfterCall(lastStorage, "Storage", cfg',
                                              Returned("buffer", lastStorage.built + 1),
                                              lastStorage.built + 1)
                              /\ pc' = [pc EXCEPT
                                          ![p] = "done",
                                          ![Worker] = IF StartsWorker(nb) THEN "select"
                                                      ELSE WorkerAfterShutdown(cfg, b)]
                              /\ stopped' = IF StartsWorker(nb) THEN FALSE
                                            ELSE (stopped \/ pc'[Worker] # pc[Worker])
    /\ UNCHANGED <<tx, input, output, pending, hist>>

\* Config.ShutdownBuffer, the worker being in its select (or absent).
ShutdownBuffer(p, lefts) ==
    /\ Free(p)
    /\ pc[Worker] \in {"off", "select", "exited"}
    /\ kind' = [kind EXCEPT ![p] = Kind("ShutdownBuffer", NoCall)]
    /\ mark' = [mark EXCEPT ![p] = IF cfg.hasBuffer /\ ~b.closed THEN Queued ELSE {}]
    /\ cfg' = [cfg EXCEPT !.hasBuffer = FALSE]
    /\ lastStorage' = AfterCall(lastStorage, "ShutdownBuffer", cfg',
                                Returned("none", 0), lastStorage.built)
    /\ IF ~cfg.hasBuffer
       THEN /\ Finish(p, "nil")
            /\ UNCHANGED <<b, rows, writes, stopped>>
       ELSE \E actions \in drainedActions(b), left \in lefts :
               \E down \in {Shutdown(b, rows, writes, actions, left)} :
                  /\ b' = down.b
                  /\ rows' = down.db
                  /\ writes' = down.log
                  /\ pc' = [pc EXCEPT ![p] = "done", ![Worker] = WorkerAfterShutdown(cfg, b)]
                  /\ ret' = [ret EXCEPT ![p] = IF down.ok THEN "nil" ELSE "err"]
                  /\ stopped' = (stopped \/ pc'[Worker] # pc[Worker])
    /\ UNCHANGED <<tx, input, output, pending, hist>>

\* Config.FlushBuffer, to the call of Buffer.Flush.
FlushBuffer(p) ==
    IF cfg.hasBuffer
    THEN FlushCall(p)
    ELSE /\ Free(p)
         /\ kind' = [kind EXCEPT ![p] = Kind("Flush", NoCall)]
         /\ mark' = [mark EXCEPT ![p] = 1..Len(hist)]
         /\ Finish(p, "nil")
         /\ UNCHANGED <<cfg, b, rows, writes, stopped, tx, lastStorage, input, output, pending, hist>>

\* One goroutine uses a Config with a synchronous buffer (BufferAsync false,
\* BufferDuration 0): Track and Assert, writes through the storage that
\* Config.Storage returned, FlushBuffer.
TrackTimes == {0, 90, 4000}

TrackGranularities == {<<"1h">>, <<"1m", "1h", "1m", "0m", "hour">>}

InitTrack ==
    /\ \E enabled \in BOOLEAN, size \in {MaxSize, MaxSize + 1}, aggregate \in BOOLEAN,
          granularities \in TrackGranularities :
          cfg = Config(enabled, Options(0, size, aggregate, FALSE), granularities, FALSE)
    /\ b = ZeroBuffer
    /\ rows = [i \in {} |-> EmptyMap]
    /\ writes = <<>>
    /\ stopped = FALSE
    /\ tx = NoTx
    /\ lastStorage = NoStorage
    /\ input = NoInput
    /\ output = NoOutput
    /\ pc = [p \in Procs |-> IF p = "c1" THEN "idle" ELSE "off"]
    /\ kind = [p \in Procs |-> Kind(IF p = Worker THEN "Worker" ELSE "none", NoCall)]
    /\ pending = [p \in Procs |-> <<>>]
    /\ ret = [p \in Procs |-> "none"]
    /\ mark = [p \in Procs |-> {}]
    /\ hist = <<>>

NextTrack ==
    \/ \E op \in {"inc", "set"}, at \in TrackTimes, trackingKey \in {"", untrackedKeyName} :
          trackOrAssert("c1", op, "events", at, V1, trackingKey)
    \/ Storage("c1", {NoFault})
    \/ cfg.hasBuffer /\ Enqueue("c1", "inc", K1, V1)
    \/ FlushBuffer("c1")
    \/ Drain("c1")
    \/ Dispatch("c1", {TRUE})

SpecTrack == InitTrack /\ [][NextTrack]_vars

\* ------------------------------------------------ Config under edits
\* One goroutine assigns to the exported fields of a Config between its
\* calls of Storage and ShutdownBuffer.
ConfigDrivers == {"postgres", "nonCount", "nil"}

ConfigDurations == {0 - 1, 0, 1}

ConfigSizes == {0, defaultBufferSize, MaxSize}

\* c with one exported field assigned.
ConfigEdits(c) ==
    {[c EXCEPT !.BufferEnabled = v] : v \in BOOLEAN}
    \cup {[c EXCEPT !.Driver = v] : v \in ConfigDrivers}
    \cup {[c EXCEPT !.BufferDuration = v] : v \in ConfigDurations}
    \cup {[c EXCEPT !.BufferSize = v] : v \in ConfigSizes}
    \cup {[c EXCEPT !.BufferAggregate = v] : v \in BOOLEAN}
    \cup {[c EXCEPT !.BufferAsync = v] : v \in BOOLEAN}

\* An assignment to a field of cfg, one between two calls on the Config;
\* edits are the Configs it can produce.
SetField(p, edits) ==
    /\ Free(p)
    /\ lastStorage.last.cfg = cfg
    /\ \E c \in edits : c # cfg /\ cfg' = c
    /\ UNCHANGED <<b, rows, writes, stopped, tx, lastStorage, input, output, pc, kind, pending, ret, mark, hist>>

\* TestConfig_BufferRebuildsWhenOptionsChange's Config, before its first
\* call of Storage.
InitConfig ==
    /\ cfg = Config(TRUE, Options(1, MaxSize, TRUE, TRUE), <<"1h">>, FALSE)
    /\ b = ZeroBuffer
    /\ rows = [i \in {} |-> EmptyMap]
    /\ writes = <<>>
    /\ stopped = FALSE
    /\ tx = NoTx
    /\ lastStorage = NoStorage
    /\ input = NoInput
    /\ output = NoOutput
    /\ pc = [p \in Procs |-> IF p = "c1" THEN "idle" ELSE "off"]
    /\ kind = [p \in Procs |-> Kind(IF p = Worker THEN "Worker" ELSE "none", NoCall)]
    /\ pending = [p \in Procs |-> <<>>]
    /\ ret = [p \in Procs |-> "none"]
    /\ mark = [p \in Procs |-> {}]
    /\ hist = <<>>

NextConfig ==
    \/ SetField("c1", ConfigEdits(cfg))
    \/ Storage("c1", {NoFault})
    \/ ShutdownBuffer("c1", {NoFault})

SpecConfig == InitConfig /\ [][NextConfig]_vars

\* The same goroutine also writes to the buffer that Storage returned and
\* flushes it, the buffer's worker ticks, and driver calls may fail; the
\* assignments are those that make Storage drop or replace the buffer.
RebuildEdits(c) ==
    {[c EXCEPT !.BufferEnabled = v] : v \in BOOLEAN}
    \cup {[c EXCEPT !.Driver = v] : v \in {"postgres", "nil"}}
    \cup {[c EXCEPT !.BufferSize = v] : v \in {MaxSize, defaultBufferSize}}

NextRebuild ==
    \/ SetField("c1", RebuildEdits(cfg))
    \/ Storage("c1", {NoFault, 0})
    \/ ShutdownBuffer("c1", {NoFault, 0})
    \/ cfg.hasBuffer /\ \E keys \in {K1, K2} : Enqueue("c1", "inc", keys, V1)
    \/ FlushBuffer("c1")
    \/ \E p \in {"c1", Worker} : Drain(p)
    \/ \E p \in {"c1", Worker} : Dispatch(p, BOOLEAN)
    \/ WorkerTick

SpecRebuild == InitConfig /\ [][NextRebuild]_vars


\* ------------------------------------------ functions without state
\* One call of a function that reads and writes no state of the program:
\* the arguments are input, the result is output.
SeqsUpTo(S, n) == UNION {[1..k -> S] : k \in 0..n}

\* The state before the call of a function on one of inputs.
InitCall(inputs) ==
    /\ cfg = NoConfig
    /\ b = ZeroBuffer
    /\ rows = NoRows
    /\ writes = <<>>
    /\ stopped = FALSE
    /\ tx = NoTx
    /\ lastStorage = NoStorage
    /\ input \in inputs
    /\ output = NoOutput
    /\ pc = [p \in Procs |-> "off"]
    /\ kind = [p \in Procs |-> Kind(IF p = Worker THEN "Worker" ELSE "none", NoCall)]
    /\ pending = [p \in Procs |-> <<>>]
    /\ ret = [p \in Procs |-> "none"]
    /\ mark = [p \in Procs |-> {}]
    /\ hist = <<>>

\* The call returns value.
Return(fn, value) ==
    /\ input.fn = fn
    /\ output = NoOutput
    /\ output' = [fn |-> fn, value |-> value]
    /\ UNCHANGED <<cfg, b, rows, writes, stopped, tx, lastStorage, input, pc, kind,
                   pending, ret, mark, hist>>

\* ParseGranularity on every string of at most MaxLen bytes over digits,
\* the letters of the unit suffixes and a letter of none.
ParseBytes == {"0", "1", "9", "s", "m", "o", "h", "d", "w", "q", "y", "x"}

InitParse ==
    InitCall({[fn |-> "ParseGranularity", s |-> s] : s \in SeqsUpTo(ParseBytes, MaxLen)})

NextParse == Return("ParseGranularity", parseGranularityBytes(input.s))

SpecParse == InitParse /\ [][NextParse]_vars

\* Unpack(Pack(m)) on nested mappings of at most MaxLen + 1 entries, three
\* levels deep, over two keys and two leaves; and on mappings with the
\* empty string as a key.
Leaves == {Num(1), Str("x")}

RECURSIVE Entries(_)
Entries(m) ==
    IF DOMAIN m = {} THEN 0
    ELSE LET k == CHOOSE x \in DOMAIN m : TRUE
         IN  1 + (IF m[k].t = "map" THEN Entries(m[k].m) ELSE 0)
             + Entries([x \in DOMAIN m \ {k} |-> m[x]])

\* The mappings over keys whose values are leaves or mappings of below.
MapsOver(keys, below) ==
    {m \in UNION {[S -> Leaves \cup {Map(x) : x \in below}] : S \in SUBSET keys} :
        Entries(m) <= MaxLen + 1}

NestedMaps == MapsOver({"a", "b"}, MapsOver({"a", "b"}, MapsOver({"a", "b"}, {})))

EmptyKeyMaps == MapsOver({"", "a"}, MapsOver({"a"}, {}))

InitPack == InitCall({[fn |-> "Unpack", m |-> m] : m \in NestedMaps \cup EmptyKeyMaps})

NextPack ==
    \E packed \in PackResults(input.m) :
       \E unpacked \in UnpackResults(packed) : Return("Unpack", unpacked)

SpecPack == InitPack /\ [][NextPack]_vars

\* Timeline, Floor and Add on ranges that start at one of Instants and span
\* up to MaxLen offsets of the unit, in a zone without and a zone with
\* summer time, with weeks that begin on Monday or on Sunday.
Instants ==
    {Date(2025, 1, 15, 10, 37, 45, UTC),    \* an ordinary instant
     Date(2025, 1, 2, 12, 0, 0, UTC),       \* before the first week start of its year
     Date(2024, 12, 30, 23, 59, 59, UTC),   \* the end of a leap year
     Date(2024, 2, 29, 0, 0, 0, UTC),       \* a leap day
     Date(2025, 1, 31, 12, 0, 0, UTC),      \* the end of a long month
     Date(2025, 3, 9, 6, 59, 59, UTC),      \* the second before summer time starts
     Date(2025, 3, 10, 4, 0, 0, UTC),       \* the Monday midnight after it, New York
     Date(2025, 3, 12, 16, 0, 0, UTC),      \* the Wednesday after it
     Date(2025, 11, 2, 5, 30, 0, UTC),      \* 01:30 before summer time ends
     Date(2025, 11, 2, 6, 30, 0, UTC)}      \* 01:30 after it

Offsets == {1, 2, 7}

Zones == {"UTC", "America/New_York"}

\* No instant offered lies after Horizon, so that the instant one offset
\* after a point still is a 32-bit number of seconds.
Horizon == Date(2031, 1, 1, 0, 0, 0, UTC)

\* About the seconds of one unit.
Span(unit) ==
    CASE unit = "s" -> 1
      [] unit = "m" -> secondsPerMinute
      [] unit = "h" -> secondsPerHour
      [] unit = "d" -> secondsPerDay
      [] unit = "w" -> 7 * secondsPerDay
      [] unit = "mo" -> 31 * secondsPerDay
      [] unit = "q" -> 92 * secondsPerDay
      [] unit = "y" -> 366 * secondsPerDay

TimeConfig(zone, weekStart) ==
    [NoConfig EXCEPT !.TimeZone = zone, !.BeginningOfWeek = weekStart]

\* The ranges: steps offsets of the unit from an instant on (backwards for
\* steps -1), as far as they end before Horizon.
TimeRanges ==
    {r \in [from : Instants, steps : (0 - 1)..MaxLen, offset : Offsets, unit : unitMap] :
        r.steps * r.offset * Span(r.unit) <= Horizon - r.from}

TimeInputs ==
    {[fn |-> fn, from |-> r.from, to |-> r.from + r.steps * r.offset * Span(r.unit),
      offset |-> r.offset, unit |-> r.unit, cfg |-> TimeConfig(zone, weekStart)] :
        fn \in {"Timeline", "Floor", "Add"}, r \in TimeRanges,
        zone \in Zones, weekStart \in {Monday, Sunday}}

InitTime == InitCall(TimeInputs)

NextTime ==
    \/ Return("Timeline", Timeline(input.from, input.to, input.offset, input.unit, input.cfg))
    \/ Return("Floor", Floor(NewNocturnal(input.to, input.cfg), input.offset, input.unit))
    \/ Return("Add", Add(NewNocturnal(input.to, input.cfg), input.offset, input.unit))

SpecTime == InitTime /\ [][NextTime]_vars

\* EffectiveGranularities, and Track and Assert on the raw driver, for a
\* Config whose Granularities are nil or a list of at most MaxLen entries.
GranularityEntries == {"1m", "1h", "0m", "invalid"}

GranularityConfigs ==
    {[Config(FALSE, Options(0, 0, FALSE, FALSE), list, FALSE) EXCEPT !.nilGranularities = isNil] :
        isNil \in {FALSE}, list \in SeqsUpTo(GranularityEntries, MaxLen)}
    \cup {[Config(FALSE, Options(0, 0, FALSE, FALSE), <<>>, FALSE) EXCEPT !.nilGranularities = TRUE]}

InitGranularities ==
    /\ cfg \in GranularityConfigs
    /\ b = ZeroBuffer
    /\ rows = [i \in {} |-> EmptyMap]
    /\ writes = <<>>
    /\ stopped = FALSE
    /\ tx = NoTx
    /\ lastStorage = NoStorage
    /\ input = [fn |-> "EffectiveGranularities"]
    /\ output = NoOutput
    /\ pc = [p \in Procs |-> IF p = "c1" THEN "idle" ELSE "off"]
    /\ kind = [p \in Procs |-> Kind(IF p = Worker THEN "Worker" ELSE "none", NoCall)]
    /\ pending = [p \in Procs |-> <<>>]
    /\ ret = [p \in Procs |-> "none"]
    /\ mark = [p \in Procs |-> {}]
    /\ hist = <<>>

NextGranularities ==
    \/ Return("EffectiveGranularities", EffectiveGranularities(cfg))
    \/ \E op \in {"inc", "set"}, at \in TrackTimes :
          trackOrAssert("c1", op, "events", at, V1, "")

SpecGranularities == InitGranularities /\ [][NextGranularities]_vars

\* --------------------------------------------------------------- Values
\* The results of Driver.Get of a list of keys: one unpacked record per
\* key, in order.
RECURSIVE getAll(_, _, _)
getAll(driver, db, keys) ==
    IF Len(keys) = 0 THEN {<<>>}
    ELSE {<<first>> \o others : first \in DriverGet(driver, db, Head(keys)),
                                others \in getAll(driver, db, Tail(keys))}

\* The reads Get makes of the backend: one query for all keys in
\* SQLiteDriver, one per key in the others.
getReads(driver, keys) ==
    IF Len(keys) = 0 THEN 0 ELSE IF driver = "sqlite" THEN 1 ELSE Len(keys)

\* Driver.Get; the backend fails after `left` reads: the sets of
\* [ok, results].
Get(driver, db, keys, left) ==
    IF Len(keys) = 0 THEN {[ok |-> TRUE, results |-> <<>>]}
    ELSE IF left # NoFault /\ left < getReads(driver, keys)
    THEN {[ok |-> FALSE, results |-> <<>>]}
    ELSE {[ok |-> TRUE, results |-> results] : results \in getAll(driver, db, keys)}

\* ValuesResult{At, Values}; ValuesResult{} has neither.
ValuesResult(at, values) == [At |-> at, Values |-> values]

\* The loop that keeps the blank pairs and drops the others.
RECURSIVE cleanBlanks(_, _)
cleanBlanks(result, i) ==
    IF i > Len(result.Values) THEN ValuesResult(<<>>, <<>>)
    ELSE Only({IF DOMAIN result.Values[i] # {} THEN rest
               ELSE ValuesResult(<<result.At[i]>> \o rest.At,
                                 <<result.Values[i]>> \o rest.Values) :
                  rest \in {cleanBlanks(result, i + 1)}})

\* The skipBlanks loop of Values from the i-th pair on.
RECURSIVE clean(_, _)
clean(result, i) ==
    IF i > Len(result.Values) THEN ValuesResult(<<>>, <<>>)
    ELSE Only({IF DOMAIN result.Values[i] = {} THEN rest
               ELSE ValuesResult(<<result.At[i]>> \o rest.At,
                                 <<result.Values[i]>> \o rest.Values) :
                  rest \in {clean(result, i + 1)}})

\* The keys Values builds from its timeline.
RECURSIVE valuesKeys(_, _, _)
valuesKeys(timeline, key, granularity) ==
    IF Len(timeline) = 0 THEN <<>>
    ELSE <<MkKey("", key, "", granularity, Head(timeline))>>
             \o valuesKeys(Tail(timeline), key, granularity)

\* What Values returns: the sets of [result, err]; the driver's Get fails
\* after `left` reads.
valuesReturns(c, db, key, from, to, granularity, skipBlanks, left) ==
    IF c.Driver = "nil" THEN {[result |-> ValuesResult(<<>>, <<>>), err |-> "err"]}
    ELSE IF ~Valid(NewParser(granularity))
    THEN {[result |-> ValuesResult(<<>>, <<>>), err |-> "err"]}
    ELSE UNION {
           {IF ~got.ok THEN [result |-> ValuesResult(<<>>, <<>>), err |-> "err"]
            ELSE IF skipBlanks
            THEN Only({[result |-> clean(result, 1), err |-> "nil"] :
                          result \in {ValuesResult(timeline, got.results)}})
            ELSE [result |-> ValuesResult(timeline, got.results), err |-> "nil"] :
               got \in Get(c.Driver, db, valuesKeys(timeline, key, granularity), left)} :
           timeline \in {Timeline(from, to, NewParser(granularity).Offset,
                                  NewParser(granularity).Unit, c)}}

\* Values by goroutine p; output holds the arguments and what it returned.
Values(p, key, from, to, granularity, skipBlanks, left) ==
    /\ Free(p)
    /\ \E returned \in valuesReturns(cfg, rows, key, from, to, granularity, skipBlanks, left) :
          /\ output' = [fn |-> "Values", key |-> key, from |-> from, to |-> to,
                        granularity |-> granularity, skipBlanks |-> skipBlanks,
                        left |-> left, result |-> returned.result, err |-> returned.err]
          /\ Finish(p, returned.err)
    /\ kind' = [kind EXCEPT ![p] = Kind("Values", NoCall)]
    /\ mark' = [mark EXCEPT ![p] = {}]
    /\ UNCHANGED <<cfg, b, rows, writes, stopped, tx, lastStorage, input, pending, hist>>

\* One goroutine tracks into 15-minute and hour buckets of a driver and
\* reads them back with Values, once.
ValuesGranularities == {"15m", "1h", "0m", "invalid"}

InitValues ==
    /\ \E driver \in {"postgres", "sqlite"} :
          cfg = [Config(FALSE, Options(0, 0, FALSE, FALSE), <<"15m", "1h">>, FALSE)
                    EXCEPT !.Driver = driver]
    /\ b = ZeroBuffer
    /\ rows = [i \in {} |-> EmptyMap]
    /\ writes = <<>>
    /\ stopped = FALSE
    /\ tx = NoTx
    /\ lastStorage = NoStorage
    /\ input = NoInput
    /\ output = NoOutput
    /\ pc = [p \in Procs |-> IF p = "c1" THEN "idle" ELSE "off"]
    /\ kind = [p \in Procs |-> Kind(IF p = Worker THEN "Worker" ELSE "none", NoCall)]
    /\ pending = [p \in Procs |-> <<>>]
    /\ ret = [p \in Procs |-> "none"]
    /\ mark = [p \in Procs |-> {}]
    /\ hist = <<>>

NextValues ==
    \/ \E op \in {"inc", "set"}, at \in TrackTimes :
          trackOrAssert("c1", op, "events", at, V1, "")
    \/ /\ output = NoOutput
       /\ \E from \in TrackTimes, to \in TrackTimes, granularity \in ValuesGranularities,
             skipBlanks \in BOOLEAN, left \in {NoFault, 0, 1} :
             Values("c1", "events", from, to, granularity, skipBlanks, left)

SpecValues == InitValues /\ [][NextValues]_vars

\* ------------------------------------------------- the drivers called directly

\* IncCount / SetCount (count 1: Inc / Set) of cfg.Driver by goroutine p; the
\* backend fails after `left` commands.  SQLiteDriver has Inc and Set only.
DriverCall(p, op, keys, values, count, left) ==
    LET name == IF cfg.Driver = "sqlite"
                THEN IF op = "inc" THEN "Inc" ELSE "Set"
                ELSE IF op = "inc" THEN "IncCount" ELSE "SetCount" IN
    /\ Free(p)
    /\ Len(hist) < MaxOps
    /\ cfg.Driver = "sqlite" => count = 1
    /\ \E packed \in PackResults(values) :
          \E r \in {DriverWrite(cfg.Driver, rows, keys, packed, op,
                                IF count <= 0 THEN 1 ELSE count, left)} :
             /\ rows' = r.db
             /\ writes' = Append(writes,
                                 RecordedWrite(name,
                                               [operation |-> op, keys |-> keys,
                                                values |-> values, count |-> count,
                                                ids |-> <<Len(hist) + 1>>],
                                               count, r.ok))
             /\ hist' = Append(hist, Call(op, keys, values))
             /\ kind' = [kind EXCEPT ![p] = Kind(name, Call(op, keys, values))]
             /\ Finish(p, IF r.ok THEN "nil" ELSE "err")
    /\ mark' = [mark EXCEPT ![p] = {}]
    /\ UNCHANGED <<cfg, b, stopped, tx, lastStorage, input, output, pending>>

\* The keys of the runs: "events" in the hour and the minute bucket, and in
\* the hour bucket with the tracking override of Untracked().
E1h == MkKey("", "events", "", "1h", 0)
E1m == MkKey("", "events", "", "1m", 0)
E1u == MkKey("", "events", untrackedKeyName, "1h", 0)

DriverKeys == {<<E1h>>, <<E1u>>, <<E1h, E1m>>}

DriverValues ==
    {V1,
     [k \in {"count"} |-> Num(0 - 3)],
     [k \in {"meta"} |-> Map([d \in {"duration"} |-> Num(2)])],
     [k \in {"count", "status"} |-> IF k = "count" THEN Num(1) ELSE Str("running")],
     [k \in {"a"} |-> Map([d \in {"b"} |-> Num(2)])],
     [k \in {"a"} |-> Num(5)],
     [k \in {"status"} |-> Num(1)]}

\* One goroutine calls the write surface of one driver, and Track / Assert
\* on a Config without buffer: any payload on any key list, and calls during
\* which the backend fails.
InitDrivers ==
    /\ \E driver \in Drivers :
          cfg = [Config(FALSE, Options(0, 0, FALSE, FALSE), <<"1h", "1m">>, FALSE)
                    EXCEPT !.Driver = driver]
    /\ b = ZeroBuffer
    /\ rows = [i \in {} |-> EmptyMap]
    /\ writes = <<>>
    /\ stopped = FALSE
    /\ tx = NoTx
    /\ lastStorage = NoStorage
    /\ input = NoInput
    /\ output = NoOutput
    /\ pc = [p \in Procs |-> IF p = "c1" THEN "idle" ELSE "off"]
    /\ kind = [p \in Procs |-> Kind(IF p = Worker THEN "Worker" ELSE "none", NoCall)]
    /\ pending = [p \in Procs |-> <<>>]
    /\ ret = [p \in Procs |-> "none"]
    /\ mark = [p \in Procs |-> {}]
    /\ hist = <<>>

NextDrivers ==
    \/ \E op \in {"inc", "set"}, keys \in DriverKeys, values \in DriverValues :
          DriverCall("c1", op, keys, values, 1, NoFault)
    \/ \E op \in {"inc", "set"}, left \in 0..3 :
          DriverCall("c1", op, <<E1h, E1m>>, V1, 1, left)
    \/ \E op \in {"inc", "set"}, trackingKey \in {"", untrackedKeyName} :
          trackOrAssert("c1", op, "events", 0, V1, trackingKey)

SpecDrivers == InitDrivers /\ [][NextDrivers]_vars

\* ------------------------------------- PostgresDriver under concurrency
\* writeWithOperation statement by statement, at PostgreSQL's default
\* isolation READ COMMITTED (DB.Begin sets none): a SELECT sees what is
\* committed when it runs, and the transaction's own writes; INSERT .. ON
\* CONFLICT DO UPDATE waits while another open transaction has written the
\* row, then overwrites it; Commit publishes the transaction's writes.

\* What transaction p reads in the row ident.
txRead(p, ident) ==
    IF ident \in DOMAIN tx[p].local THEN tx[p].local[ident] ELSE readPacked(rows, ident)

\* Another open transaction has written the row.
rowLocked(p, ident) ==
    \E q \in Callers \ {p} : tx[q] # <<>> /\ ident \in DOMAIN tx[q].local

\* IncCount / SetCount up to tx.Begin.
PgBegin(p, op, keys, values) ==
    /\ Free(p)
    /\ Len(hist) < MaxOps
    /\ Len(keys) > 0 /\ DOMAIN values # {}
    /\ \E packed \in PackResults(values) :
          tx' = [tx EXCEPT ![p] = [keys |-> keys, packed |-> packed, op |-> op,
                                   existing |-> EmptyMap, local |-> NoRows]]
    /\ hist' = Append(hist, Call(op, keys, values))
    /\ kind' = [kind EXCEPT ![p] = Kind(IF op = "inc" THEN "IncCount" ELSE "SetCount",
                                        Call(op, keys, values))]
    /\ mark' = [mark EXCEPT ![p] = {Len(hist) + 1}]
    /\ pc' = [pc EXCEPT ![p] = "pgRead"]
    /\ UNCHANGED <<cfg, b, rows, writes, stopped, pending, ret, lastStorage, input, output>>

\* The call ends: the deferred Rollback drops what Commit has not published.
PgReturn(p, ok) ==
    /\ tx' = [tx EXCEPT ![p] = <<>>]
    /\ writes' = Append(writes,
                        RecordedWrite(kind[p].name,
                                      [operation |-> tx[p].op, keys |-> kind[p].call.keys,
                                       values |-> kind[p].call.values, count |-> 1,
                                       ids |-> <<CHOOSE i \in mark[p] : TRUE>>],
                                      1, ok))
    /\ Finish(p, IF ok THEN "nil" ELSE "err")

\* readPacked(tx, ident) and mergePackedValues for the key at hand.
PgRead(p) ==
    /\ pc[p] = "pgRead"
    /\ LET merged == mergePackedValues(txRead(p, identifierForKey(Head(tx[p].keys))),
                                       tx[p].packed, tx[p].op)
       IN  IF merged.ok
           THEN /\ tx' = [tx EXCEPT ![p].existing = merged.out]
                /\ pc' = [pc EXCEPT ![p] = "pgUpsert"]
                /\ UNCHANGED <<writes, ret>>
           ELSE PgReturn(p, FALSE)
    /\ UNCHANGED <<cfg, b, rows, stopped, kind, pending, mark, hist, lastStorage, input, output>>

\* upsertPacked(tx, ident, merged).
PgUpsert(p) ==
    /\ pc[p] = "pgUpsert"
    /\ ~rowLocked(p, identifierForKey(Head(tx[p].keys)))
    /\ tx' = [tx EXCEPT ![p].local =
                 upsertPacked(tx[p].local, identifierForKey(Head(tx[p].keys)), tx[p].existing)]
    /\ pc' = [pc EXCEPT ![p] = "pgSystemRead"]
    /\ UNCHANGED <<cfg, b, rows, writes, stopped, kind, pending, ret, mark, hist, lastStorage, input, output>>

\* readPacked and mergePackedValues for the system record of the key.
PgSystemRead(p) ==
    /\ pc[p] = "pgSystemRead"
    /\ LET key == Head(tx[p].keys)
           merged == mergePackedValues(txRead(p, SystemIdent(key)),
                                       systemDataFor(SystemTrackingKey(key), 1), "inc")
       IN  tx' = [tx EXCEPT ![p].existing = merged.out]
    /\ pc' = [pc EXCEPT ![p] = "pgSystemUpsert"]
    /\ UNCHANGED <<cfg, b, rows, writes, stopped, kind, pending, ret, mark, hist, lastStorage, input, output>>

\* upsertPacked of the system record; then the next key, or Commit.
PgSystemUpsert(p) ==
    /\ pc[p] = "pgSystemUpsert"
    /\ ~rowLocked(p, SystemIdent(Head(tx[p].keys)))
    /\ tx' = [tx EXCEPT ![p].local =
                 upsertPacked(tx[p].local, SystemIdent(Head(tx[p].keys)), tx[p].existing),
                        ![p].keys = Tail(tx[p].keys)]
    /\ pc' = [pc EXCEPT ![p] = IF Len(tx[p].keys) > 1 THEN "pgRead" ELSE "pgCommit"]
    /\ UNCHANGED <<cfg, b, rows, writes, stopped, kind, pending, ret, mark, hist, lastStorage, input, output>>

\* The row p's next upsert writes, when p stands before an upsert.
wantedRow(p) ==
    IF pc[p] = "pgUpsert" THEN {identifierForKey(Head(tx[p].keys))}
    ELSE IF pc[p] = "pgSystemUpsert" THEN {SystemIdent(Head(tx[p].keys))}
    ELSE {}

\* PostgreSQL's deadlock detector: p waits for a row of q while q waits for
\* a row of p; p's statement fails and the call returns the error.
PgDeadlock(p) ==
    /\ \E q \in Callers \ {p} :
          /\ tx[q] # <<>>
          /\ wantedRow(p) \cap DOMAIN tx[q].local # {}
          /\ wantedRow(q) \cap DOMAIN tx[p].local # {}
    /\ PgReturn(p, FALSE)
    /\ UNCHANGED <<cfg, b, rows, stopped, kind, pending, mark, hist, lastStorage, input, output>>

\* tx.Commit.
PgCommit(p) ==
    /\ pc[p] = "pgCommit"
    /\ rows' = [i \in DOMAIN rows \cup DOMAIN tx[p].local |->
                  IF i \in DOMAIN tx[p].local THEN tx[p].local[i] ELSE rows[i]]
    /\ PgReturn(p, TRUE)
    /\ UNCHANGED <<cfg, b, stopped, kind, pending, mark, hist, lastStorage, input, output>>

\* Two goroutines call Inc and Set of one PostgresDriver.
ConcurrentValues == {V1, [k \in {"count"} |-> Num(2)]}

InitConcurrent == InitBuffer(TRUE, Options(0, 1, FALSE, FALSE), Callers)

NextConcurrent ==
    \/ \E p \in Callers, op \in {"inc", "set"}, keys \in {K1, K2, K1 \o K2},
          values \in ConcurrentValues : PgBegin(p, op, keys, values)
    \/ \E p \in Callers : PgRead(p)
    \/ \E p \in Callers : PgUpsert(p)
    \/ \E p \in Callers : PgSystemRead(p)
    \/ \E p \in Callers : PgSystemUpsert(p)
    \/ \E p \in Callers : PgCommit(p)
    \/ \E p \in Callers : PgDeadlock(p)

SpecConcurrent == InitConcurrent /\ [][NextConcurrent]_vars

\* ------------------------------------------------------------ properties

\* C3: when Flush (or Config.FlushBuffer, which calls it) returns nil, every
\* write the buffer accepted before the call began has been applied to the
\* driver.
C3_FlushNilMeansApplied ==
    \A p \in Callers :
        (pc[p] = "done" /\ kind[p].name = "Flush" /\ ret[p] = "nil")
            => mark[p] \subseteq Applied

\* C4: an accepted write leaves the buffer only through a successful
\* dispatch: it is queued, or held by a Flush that is still dispatching, or
\* applied to the driver; a failed driver call loses nothing.
C4_NoActionLost ==
    \A id \in 1..Len(hist) : id \in Queued \cup InFlight \cup Applied

\* No goroutine is inside a call of the buffer.
Quiescent == \A p \in Procs : pc[p] \notin {"flush", "dispatch", "close", "wait"}

\* C5: the buffer counts logical operations: operation_count is the number of
\* queued logical calls (coalesced or not) and every accepted call raises it
\* by one; an enqueue that leaves operation_count >= size goes on to flush
\* before it returns, so with no call in progress fewer than size are queued.
C5_CountsLogicalOperations ==
    /\ [](/\ b.operationCount = Cardinality(Queued)
          /\ b.operationCount >= b.size =>
                \E p \in Callers : pc[p] = "flush" /\ kind[p].name \in {"Inc", "Set"}
          /\ Quiescent => Cardinality(Queued) < b.size)
    /\ [][hist' # hist =>
            /\ b'.operationCount = b.operationCount + 1
            /\ b'.operationCount >= b.size =>
                  \E p \in Callers : Free(p) /\ pc'[p] = "flush"]_vars

\* C5 witness: two calls coalesced into one action count as two, reach the
\* size and send the enqueuer to flush.
C5_Witness ==
    /\ b.aggregate
    /\ Cardinality(DOMAIN b.actionsBySig) = 1
    /\ b.operationCount = 2
    /\ b.operationCount >= b.size
    /\ \E p \in Callers : pc[p] = "flush"

\* The step in which p's Inc or Set runs its critical section.
EnqueueStep(p) ==
    /\ Free(p)
    /\ kind'[p].name \in {"Inc", "Set"}
    /\ <<pc'[p], kind'[p], ret'[p]>> # <<pc[p], kind[p], ret[p]>>

EmptyCall(call) == Len(call.keys) = 0 \/ DOMAIN call.values = {}

\* C8 as claimed: on a closed buffer every Inc or Set returns an error, adds
\* nothing to the queue and causes no driver call.
C8_ClosedRejectsEveryEnqueue ==
    [][\A p \in Callers :
          (b.closed /\ EnqueueStep(p)) =>
              /\ pc'[p] = "done" /\ ret'[p] = "err"
              /\ b' = b /\ hist' = hist /\ writes' = writes /\ rows' = rows]_vars

\* C8 amended: on a closed buffer an Inc or Set with at least one key and one
\* value returns an error, one with no keys or no values returns nil; either
\* way it returns at once, adds nothing to the queue and causes no driver call.
C8_ClosedRejectsEnqueue ==
    [][\A p \in Callers :
          (b.closed /\ EnqueueStep(p)) =>
              /\ pc'[p] = "done"
              /\ ret'[p] = IF EmptyCall(kind'[p].call) THEN "nil" ELSE "err"
              /\ b' = b /\ hist' = hist /\ writes' = writes /\ rows' = rows]_vars

\* C8 witness: a closed buffer has rejected a non-empty Inc or Set (no driver
\* call has failed, so the error is the rejection).
C8_Witness ==
    /\ b.closed
    /\ \A j \in 1..Len(writes) : writes[j].ok
    /\ \E p \in Callers :
          /\ pc[p] = "done" /\ ret[p] = "err"
          /\ kind[p].name \in {"Inc", "Set"}
          /\ ~EmptyCall(kind[p].call)

\* C9: after the Shutdown call that closed the buffer returns nil, every
\* action that was queued when it was called has been handed to the driver.
C9_ShutdownNilMeansDispatched ==
    \A p \in Callers :
        (pc[p] = "done" /\ kind[p].name = "Shutdown" /\ ret[p] = "nil")
            => mark[p] \subseteq Attempted

\* C10: with a worker (Async and Duration > 0) every accepted write is
\* eventually handed to the driver and the queue eventually becomes empty.
C10_WorkerEventuallyDispatches ==
    /\ \A id \in 1..MaxOps :
          (StartsWorker(b) /\ Len(hist) >= id) ~> (id \in Attempted)
    /\ (StartsWorker(b) /\ b.operationCount > 0) ~> (b.operationCount = 0)

\* The driver state after each accepted call of calls is applied by itself, in
\* order, to the driver state db (a call that fails changes nothing).
RECURSIVE DirectRows(_, _)
DirectRows(db, calls) ==
    IF Len(calls) = 0 THEN db
    ELSE LET c == Head(calls)
             r == writeWithOperation(db, c.keys, Pack(c.values), c.operation, 1, TRUE)
         IN  DirectRows(r.db, Tail(calls))

\* Every leaf of the payload is numeric.
RECURSIVE AllNumeric(_)
AllNumeric(values) ==
    \A k \in DOMAIN values :
        IF values[k].t = "map" THEN AllNumeric(values[k].m) ELSE toFloat(values[k]).ok

\* All accepted calls are Inc calls of one signature with numeric payloads.
SameSignatureIncs ==
    /\ Len(hist) > 0
    /\ \A i \in 1..Len(hist) :
          /\ hist[i].operation = "inc"
          /\ signatureFor("inc", hist[i].keys) = signatureFor("inc", hist[1].keys)
          /\ AllNumeric(hist[i].values)

\* C2: Inc calls of one signature, sent through an aggregating buffer over a
\* count-aware driver and flushed, leave the driver (primary rows and system
\* records) as applying each call by itself, in order, to a fresh driver.
C2_CoalescingEquivalence ==
    (b.aggregate /\ SameSignatureIncs /\ Queued = {} /\ InFlight = {})
        => rows = DirectRows(NoRows, hist)

\* The sum over the payloads of the calls ids of the number at the packed
\* path (a payload without the path adds nothing).
RECURSIVE PathSum(_, _)
PathSum(ids, path) ==
    IF Len(ids) = 0 THEN 0
    ELSE LET packed == Pack(hist[Head(ids)].values)
         IN  (IF path \in DOMAIN packed THEN toFloat(packed[path]).f ELSE 0)
             + PathSum(Tail(ids), path)

PackedPaths(ids) == UNION {DOMAIN Pack(hist[ids[i]].values) : i \in 1..Len(ids)}

\* The calls ids all have the operation and the signature of the write w.
SameSignature(w) ==
    \A i \in 1..Len(w.ids) :
        /\ hist[w.ids[i]].operation = w.operation
        /\ signatureFor(w.operation, hist[w.ids[i]].keys) = signatureFor(w.operation, w.keys)

\* No accepted call is in two driver calls.
AtMostOneCall ==
    \A i, j \in 1..Len(writes) :
        i # j => {writes[i].ids[x] : x \in 1..Len(writes[i].ids)}
                 \cap {writes[j].ids[x] : x \in 1..Len(writes[j].ids)} = {}

\* C6: in aggregated mode the Inc calls of one signature accepted between two
\* drains (numeric payloads) reach the driver as one IncCount whose count is
\* their number and whose values hold, at every path, the sum of the payloads.
C6_IncrementsSummedPathwise ==
    b.aggregate =>
        /\ AtMostOneCall
        /\ \A j \in 1..Len(writes) :
              LET w == writes[j] IN
              (w.operation = "inc" /\ \A i \in 1..Len(w.ids) : AllNumeric(hist[w.ids[i]].values))
                  => /\ w.call = "IncCount"
                     /\ w.count = Len(w.ids)
                     /\ SameSignature(w)
                     /\ DOMAIN Pack(w.values) = PackedPaths(w.ids)
                     /\ \A path \in DOMAIN Pack(w.values) :
                           toFloat(Pack(w.values)[path]).f = PathSum(w.ids, path)

\* A Set accepted into an aggregating queue joins the queued action of its
\* signature, if there is one, and leaves its own payload as the action's.
SetJoinsQueuedAction ==
    (b.aggregate /\ Len(hist') = Len(hist) + 1 /\ hist'[Len(hist')].operation = "set")
        => LET call == hist'[Len(hist')]
               sig == signatureFor("set", call.keys)
               before == IF sig \in DOMAIN b.actionsBySig
                         THEN b.actionsBySig[sig].ids ELSE <<>>
           IN  /\ sig \in DOMAIN b'.actionsBySig
               /\ b'.actionsBySig[sig].ids = Append(before, Len(hist'))
               /\ b'.actionsBySig[sig].values = call.values
               /\ b'.actionsBySig[sig].count = Len(before) + 1

\* The dispatch of a drained set action of an aggregating buffer is one
\* SetCount call for all the calls coalesced into the action.
SetDispatchedAsOneCall ==
    \A p \in Procs :
        (b.aggregate /\ pc[p] = "dispatch" /\ pending'[p] # pending[p]
            /\ Head(pending[p]).operation = "set")
            => /\ Len(writes') = Len(writes) + 1
               /\ writes'[Len(writes')].call = "SetCount"
               /\ writes'[Len(writes')].ids = Head(pending[p]).ids

\* C7: in aggregated mode the Set calls of one signature accepted between two
\* drains reach the driver as one SetCount whose values are the payload of
\* the last of them and whose count is their number.
C7_LastSetWins ==
    /\ [](b.aggregate =>
            /\ AtMostOneCall
            /\ \A j \in 1..Len(writes) :
                  LET w == writes[j] IN
                  w.operation = "set"
                      => /\ w.call = "SetCount"
                         /\ w.count = Len(w.ids)
                         /\ SameSignature(w)
                         /\ w.values = hist[w.ids[Len(w.ids)]].values)
    /\ [][SetJoinsQueuedAction /\ SetDispatchedAsOneCall]_vars

\* C7 witness: the driver has received one SetCount for two Sets with
\* different payloads.
C7_Witness ==
    /\ b.aggregate
    /\ \E j \in 1..Len(writes) :
          /\ writes[j].call = "SetCount"
          /\ writes[j].count = 2
          /\ hist[writes[j].ids[1]].values # hist[writes[j].ids[2]].values

\* The step in which p's Track or Assert runs.
TrackStep(p) ==
    /\ Free(p)
    /\ kind'[p].name \in {"Track", "Assert"}
    /\ hist' # hist

\* C1: with the buffer enabled, synchronous, without duration and larger than
\* the number of writes made so far, a Track or Assert leaves the driver
\* unchanged (the bucket still reads empty); and once FlushBuffer has
\* returned nil, every earlier write is in the driver.
C1_BufferedTrackInvisibleUntilFlush ==
    /\ [][\A p \in Callers :
             (/\ TrackStep(p)
              /\ cfg.BufferEnabled /\ ~cfg.BufferAsync /\ cfg.BufferDuration = 0
              /\ cfg.BufferSize > Len(hist'))
                 => rows' = rows /\ writes' = writes]_vars
    /\ [](\A p \in Callers :
             (pc[p] = "done" /\ kind[p].name = "Flush" /\ ret[p] = "nil")
                 => mark[p] \subseteq Applied)

\* C12: a Track or Assert issues exactly one Inc or Set to cfg.Storage(): with
\* the buffer enabled the call is accepted by the buffer (queued, or being
\* flushed by it), otherwise it is the one call the driver receives; the call
\* carries one Key per entry of cfg.EffectiveGranularities().
C12_TrackWritesThroughStorage ==
    [][\A p \in Callers :
          TrackStep(p) =>
             /\ Len(kind'[p].call.keys) = Len(EffectiveGranularities(cfg))
             /\ IF cfg.BufferEnabled
                THEN Len(hist') \in Queued' \cup InFlight' /\ writes' = writes
                ELSE /\ Len(writes') = Len(writes) + 1
                     /\ writes'[Len(writes')].call = (IF kind'[p].call.operation = "inc"
                                                      THEN "Inc" ELSE "Set")
                     /\ writes'[Len(writes')].keys = kind'[p].call.keys]_vars

\* How many keys of a call write into the bucket for one of the sources.
BucketKeys(keys, bucket, sources) ==
    Cardinality({j \in 1..Len(keys) : /\ SystemIdent(keys[j]) = bucket
                                       /\ SystemTrackingKey(keys[j]) \in sources})

\* The multiplicities of the successful driver calls of log, per primary write
\* into the bucket for the sources.
RECURSIVE WrittenCount(_, _, _)
WrittenCount(log, bucket, sources) ==
    IF Len(log) = 0 THEN 0
    ELSE (IF Head(log).ok THEN Head(log).count * BucketKeys(Head(log).keys, bucket, sources)
          ELSE 0)
         + WrittenCount(Tail(log), bucket, sources)

\* The logical write calls a successful driver call has applied, per key in
\* the bucket for the sources.
RECURSIVE LogicalCount(_, _, _)
LogicalCount(ids, bucket, sources) ==
    IF ids = {} THEN 0
    ELSE LET i == CHOOSE x \in ids : TRUE
         IN  BucketKeys(hist[i].keys, bucket, sources) + LogicalCount(ids \ {i}, bucket, sources)

\* The system record's key of the bucket a key falls in, as a caller reads it.
SystemKey(k) == MkKey("", systemKeyName, "", k.Granularity, k.At)

\* The number a Get result holds at a path (0 when there is none).
NumberAt(result, path) ==
    LET v == json_extract(result, Split(path))
    IN  IF v.t = "num" THEN v.n ELSE 0

HistKeys == UNION { {hist[i].keys[j] : j \in 1..Len(hist[i].keys)} : i \in 1..Len(hist) }

\* C13: the system record of a bucket counts every successful primary write
\* into the bucket with the multiplicity of its driver call, in count and in
\* keys.<source>; so its count is the number of logical write calls applied
\* (stated for runs without a failed call and without a tracking override).
C13_SystemCountIsExact ==
    (/\ \A j \in 1..Len(writes) : writes[j].ok
     /\ \A k \in HistKeys : k.TrackingKey = "") =>
    \A k \in HistKeys :
       LET bucket == SystemIdent(k)
           sources == {SystemTrackingKey(x) : x \in {y \in HistKeys : SystemIdent(y) = bucket}}
       IN  \A system \in DriverGet(cfg.Driver, rows, SystemKey(k)) :
              /\ \A source \in sources :
                    /\ NumberAt(system, "keys." \o source)
                          = WrittenCount(writes, bucket, {source})
                    /\ WrittenCount(writes, bucket, {source})
                          = LogicalCount(Applied, bucket, {source})
              /\ NumberAt(system, "count") = WrittenCount(writes, bucket, sources)
              /\ NumberAt(system, "count") = LogicalCount(Applied, bucket, sources)

\* C14: the source the system record counts a write under is the key's
\* tracking override when it has one, else the logical key: after one
\* successful write the record holds keys.<source> = 1, and nothing under
\* the logical key of a write that carries an override.
C14_OverrideIsTheSource ==
    (Len(hist) = 1 /\ Len(writes) = 1 /\ writes[1].ok) =>
    \A k \in HistKeys :
       \A system \in DriverGet(cfg.Driver, rows, SystemKey(k)) :
          /\ NumberAt(system, "keys." \o SystemTrackingKey(k)) = 1
          /\ k.TrackingKey # "" => json_extract(system, <<"keys", k.Key>>).t = "nil"

HistIds == [i \in 1..Len(hist) |-> i]

\* All calls so far are successful Inc calls on the key E1h with numeric
\* payloads, none of whose paths is a step of another's.
SuccessfulIncs ==
    /\ Len(hist) > 0
    /\ Len(writes) = Len(hist)
    /\ \A i \in 1..Len(hist) :
          /\ hist[i].operation = "inc"
          /\ hist[i].keys = <<E1h>>
          /\ AllNumeric(hist[i].values)
          /\ writes[i].ok
    /\ \A p, q \in PackedPaths(HistIds) : p # q => Split(q)[1] # p

\* C15: after n successful Inc calls on one key, Get returns at every path the
\* sum of the increments made to it (the table was empty before), top-level
\* or nested, and the system record's count for the bucket is n.
C15_IncrementsAddUp ==
    SuccessfulIncs =>
       /\ \A result \in DriverGet(cfg.Driver, rows, E1h) :
             \A path \in PackedPaths(HistIds) :
                NumberAt(result, path) = PathSum(HistIds, path)
       /\ \A system \in DriverGet(cfg.Driver, rows, SystemKey(E1h)) :
             NumberAt(system, "count") = Len(hist)

\* The step in which p's direct driver call runs.
DriverStep(p) ==
    /\ Free(p)
    /\ kind'[p].name \in {"Inc", "Set", "IncCount", "SetCount"}
    /\ hist' # hist

Max(x, y) == IF x >= y THEN x ELSE y

\* C16: an Inc of delta on a top-level path of one key, whose stored value
\* is e (0 when the path is absent or holds no number), succeeds while the
\* backend works and leaves max(0, e) + delta at the path, whichever the
\* driver.
C16_IncAddsToClampedValue ==
    [][\A p \in Callers :
          (/\ DriverStep(p)
           /\ kind'[p].call.operation = "inc"
           /\ kind'[p].call.keys = <<E1h>>
           /\ \A k \in DOMAIN kind'[p].call.values : kind'[p].call.values[k].t = "num")
          => /\ ret'[p] = "nil"
             /\ \E before \in DriverGet(cfg.Driver, rows, E1h) :
                   \A after \in DriverGet(cfg.Driver, rows', E1h) :
                      \A k \in DOMAIN kind'[p].call.values :
                         NumberAt(after, k)
                           = Max(0, NumberAt(before, k)) + kind'[p].call.values[k].n]_vars

\* C17: an Inc whose payload holds a value that is no number fails as a
\* whole: it returns an error and no record, primary or system, of any key
\* changes.
C17_NonNumericIncChangesNothing ==
    [][\A p \in Callers :
          (/\ DriverStep(p)
           /\ kind'[p].call.operation = "inc"
           /\ ~AllNumeric(kind'[p].call.values))
          => ret'[p] = "err" /\ rows' = rows]_vars

\* The (path, leaf) pairs the driver stores in the row of a key.
StoredEntries(db, key) == packEntries(readPacked(db, Join(key, Separator)), "")

\* C18: an Inc or Set leaves every stored path of its keys that is absent
\* from the packed incoming values as it was, whether the call succeeds or
\* fails.
C18_AbsentPathsKeepTheirValue ==
    [][\A p \in Callers :
          DriverStep(p) =>
             \A packed \in PackResults(kind'[p].call.values) :
                \A i \in 1..Len(kind'[p].call.keys) :
                   \A e \in StoredEntries(rows, kind'[p].call.keys[i]) :
                      e[1] \notin DOMAIN packed
                         => e \in StoredEntries(rows', kind'[p].call.keys[i])]_vars

\* C19: on every driver but the Redis one, an Inc or Set over several keys
\* that returns an error has changed no record, primary or system, of any key.
C19_FailedCallChangesNothing ==
    [][\A p \in Callers :
          (DriverStep(p) /\ cfg.Driver # "redis" /\ ret'[p] = "err") => rows' = rows]_vars

\* The calls so far that wrote the key.
CallsOn(k) ==
    SelectSeq(HistIds, LAMBDA i : \E j \in 1..Len(hist[i].keys) : hist[i].keys[j] = k)

\* C20: concurrent Inc calls of the PostgresDriver linearize: once all calls
\* have returned nil, every path of every key holds the sum of the increments
\* made to it and the system record counts every write (no lost update).
C20_ConcurrentIncsLinearize ==
    (/\ \A p \in Callers : pc[p] \in {"idle", "done"}
     /\ Len(writes) = Len(hist)
     /\ \A i \in 1..Len(hist) : hist[i].operation = "inc" /\ writes[i].ok)
    => \A k \in HistKeys :
          /\ \A result \in DriverGet("postgres", rows, k) :
                \A path \in PackedPaths(CallsOn(k)) :
                   NumberAt(result, path) = PathSum(CallsOn(k), path)
          /\ \A system \in DriverGet("postgres", rows, SystemKey(k)) :
                NumberAt(system, "count")
                  = LogicalCount(1..Len(hist), SystemIdent(k),
                                 {SystemTrackingKey(x) : x \in HistKeys})

\* The action the linear queue holds for the accepted call id.
OwnAction(id) ==
    [operation |-> hist[id].operation, keys |-> hist[id].keys,
     values |-> hist[id].values, count |-> 1, ids |-> <<id>>]

\* actions are the own actions of calls in the order the calls were accepted.
InEnqueueOrder(actions) ==
    /\ \A i \in 1..Len(actions) :
          /\ Len(actions[i].ids) = 1
          /\ actions[i].ids[1] \in 1..Len(hist)
          /\ actions[i] = OwnAction(actions[i].ids[1])
    /\ \A i, j \in 1..Len(actions) : i < j => actions[i].ids[1] < actions[j].ids[1]

\* The one driver call that dispatches the own action of a call.
OneCallPerOperation(w) ==
    /\ Len(w.ids) = 1
    /\ w.count = 1
    /\ w.keys = hist[w.ids[1]].keys
    /\ w.values = hist[w.ids[1]].values
    /\ w.call = IF b.countAware
                THEN (IF hist[w.ids[1]].operation = "inc" THEN "IncCount" ELSE "SetCount")
                ELSE (IF hist[w.ids[1]].operation = "inc" THEN "Inc" ELSE "Set")

\* C11: without aggregation (switched off, or the driver has no count-aware
\* surface, which switches it off) the buffer is a linear queue: every accepted
\* call appends its own action, a drain takes the actions in the order of the
\* calls, and every turn of the dispatch loop is one driver call for the
\* oldest action not yet dispatched.
C11_LinearQueue ==
    /\ [](/\ ~b.countAware => ~b.aggregate
          /\ ~b.aggregate =>
                /\ DOMAIN b.actionsBySig = {}
                /\ InEnqueueOrder(b.actionsLinear)
                /\ \A p \in Procs : InEnqueueOrder(pending[p])
                /\ \A j \in 1..Len(writes) : OneCallPerOperation(writes[j]))
    /\ [][~b.aggregate =>
            /\ hist' # hist =>
                  /\ Len(hist') = Len(hist) + 1
                  /\ b'.actionsLinear =
                        Append(b.actionsLinear,
                               [operation |-> hist'[Len(hist')].operation,
                                keys |-> hist'[Len(hist')].keys,
                                values |-> hist'[Len(hist')].values,
                                count |-> 1, ids |-> <<Len(hist')>>])
            /\ \A p \in Procs :
                  (pc[p] = "dispatch" /\ pending'[p] # pending[p]) =>
                      /\ Len(writes') = Len(writes) + 1
                      /\ writes'[Len(writes')].ids = Head(pending[p]).ids]_vars

\* C11 witness: a driver without the count-aware surface has received, in
\* order, one Inc or Set for each of two calls that were queued together.
C11_Witness ==
    /\ ~b.countAware
    /\ Len(writes) = 2
    /\ writes[1].ids = <<1>> /\ writes[2].ids = <<2>>
    /\ writes[1].ok /\ writes[2].ok
    /\ writes[1].call \in {"Inc", "Set"}
    /\ b.size = MaxSize

\* C21: an Inc (or Track) whose payload holds a value that is no number
\* returns an error from that very call, whether it is made on the buffer or
\* on the raw driver: when the call returns, it has returned an error.
C21_ValidationIsSynchronous ==
    [][\A p \in Callers :
          (/\ EnqueueStep(p) \/ DriverStep(p) \/ TrackStep(p)
           /\ kind'[p].call.operation = "inc"
           /\ ~EmptyCall(kind'[p].call)
           /\ ~AllNumeric(kind'[p].call.values)
           /\ pc'[p] = "done")
          => ret'[p] = "err"]_vars

\* The step in which p's call of Config.Storage runs.
StorageStep(p) ==
    /\ Free(p)
    /\ kind'[p].name = "Storage"
    /\ lastStorage' # lastStorage

\* What Buffer.matches is claimed to compare: driver identity, normalized
\* duration, normalized size, requested aggregate and driver-is-count-aware,
\* async.
StorageTuple(c) ==
    <<c.Driver,
      IF c.BufferDuration <= 0 THEN 0 ELSE c.BufferDuration,
      IF c.BufferSize <= 0 THEN 256 ELSE c.BufferSize,
      c.BufferAggregate /\ c.Driver \in {"postgres", "redis", "mongo"},
      c.BufferAsync>>

\* A call of Storage with the buffer disabled returns the raw driver.
DisabledReturnsDriver ==
    ~cfg.BufferEnabled =>
        lastStorage'.last.result = IF cfg.Driver = "nil" THEN Returned("nil", 0)
                                   ELSE Returned("driver", 0)

\* Two successive calls of Storage, both with the buffer enabled, return
\* the same Buffer iff the tuple is the same at both; when it is not, the
\* second returns a Buffer the Config has just built, open and empty.
SameBufferIffUnchanged ==
    /\ lastStorage'.last.result.storage = "buffer"
    /\ lastStorage.last.result.storage = "buffer"
    /\ (lastStorage'.last.result = lastStorage.last.result)
          <=> (StorageTuple(cfg) = StorageTuple(lastStorage.last.cfg))
    /\ StorageTuple(cfg) # StorageTuple(lastStorage.last.cfg) =>
          /\ lastStorage'.last.result = Returned("buffer", lastStorage.built + 1)
          /\ ~b'.closed /\ b'.operationCount = 0
          /\ StorageTuple(cfg) = <<b'.driver, b'.duration, b'.size, b'.aggregate, b'.async>>

\* C22 as claimed: Storage returns the raw driver when BufferEnabled is
\* false; with the buffer enabled at two successive calls, they return the
\* same Buffer iff (driver, normalized duration, normalized size, effective
\* aggregate, async) is unchanged, and otherwise a new, open Buffer.
C22_SameBufferIffTupleUnchanged ==
    [][\A p \in Callers :
          StorageStep(p) =>
             /\ DisabledReturnsDriver
             /\ (/\ cfg.BufferEnabled
                 /\ lastStorage.last.name = "Storage"
                 /\ lastStorage.last.cfg.BufferEnabled) => SameBufferIffUnchanged]_vars

\* C22 amended: the same, for two successive calls at both of which the
\* Config has a driver; without a driver Storage returns nil.
C22_StorageIdentity ==
    [][\A p \in Callers :
          StorageStep(p) =>
             /\ DisabledReturnsDriver
             /\ (cfg.BufferEnabled /\ cfg.Driver = "nil")
                   => lastStorage'.last.result = Returned("nil", 0)
             /\ (/\ cfg.BufferEnabled /\ cfg.Driver # "nil"
                 /\ lastStorage.last.name = "Storage"
                 /\ lastStorage.last.cfg.BufferEnabled
                 /\ lastStorage.last.cfg.Driver # "nil") => SameBufferIffUnchanged]_vars

\* C22 witness: after a rebuild, Storage has returned the Buffer of the
\* call before although BufferSize is 0 and BufferDuration is -1: they
\* normalize to the buffer's 256 and 0.
C22_Witness ==
    /\ lastStorage.last.name = "Storage" /\ lastStorage.before.name = "Storage"
    /\ lastStorage.built = 2
    /\ lastStorage.last.result = lastStorage.before.result
    /\ lastStorage.last.result = Returned("buffer", 2)
    /\ cfg.BufferSize = 0 /\ b.size = defaultBufferSize
    /\ cfg.BufferDuration = 0 - 1 /\ b.duration = 0
    /\ lastStorage.last.cfg = cfg

\* C30: when Storage replaces the Config's buffer or drops it, every action
\* that was queued in the old buffer has been handed to the driver when
\* Storage returns.
C30_ReplacedBufferIsFlushed ==
    [][\A p \in Callers :
          (/\ StorageStep(p)
           /\ cfg.hasBuffer
           /\ lastStorage'.last.result # Returned("buffer", lastStorage.built))
          => /\ pc'[p] = "done"
             /\ mark'[p] = Queued
             /\ mark'[p] \subseteq Attempted']_vars

\* The number a string of digits denotes.
RECURSIVE DecimalValue(_)
DecimalValue(digits) ==
    IF Len(digits) = 0 THEN 0
    ELSE 10 * DecimalValue(SubSeq(digits, 1, Len(digits) - 1))
         + DigitValue(digits[Len(digits)])

\* The lengths k at which s splits into k >= 1 digits and a unit suffix.
GranularitySplits(s) ==
    {k \in 1..(Len(s) - 1) :
        /\ \A i \in 1..k : IsDigit(s[i])
        /\ JoinStrings(SubSeq(s, k + 1, Len(s)), "")
             \in {"s", "m", "h", "d", "w", "mo", "q", "y"}}

\* C28: ParseGranularity returns (offset, unit, true) exactly for the
\* strings of one or more digits followed by one unit suffix whose offset is
\* at least 1, and ok = false for every other string.
C28_ParsesExactlyGranularities ==
    output.fn = "ParseGranularity" =>
        IF \E k \in GranularitySplits(input.s) :
              DecimalValue(SubSeq(input.s, 1, k)) >= 1
        THEN \E k \in GranularitySplits(input.s) :
                output.value = [offset |-> DecimalValue(SubSeq(input.s, 1, k)),
                                unit |-> JoinStrings(SubSeq(input.s, k + 1, Len(input.s)), ""),
                                ok |-> TRUE]
        ELSE ~output.value.ok

\* Some key of m, at some level, is the empty string.
RECURSIVE HasEmptyKey(_)
HasEmptyKey(m) ==
    \E k \in DOMAIN m : k = "" \/ (m[k].t = "map" /\ HasEmptyKey(m[k].m))

\* Some value of m, at some level, is a mapping without entries.
RECURSIVE HasEmptyMap(_)
HasEmptyMap(m) ==
    \E k \in DOMAIN m : m[k].t = "map" /\ (DOMAIN m[k].m = {} \/ HasEmptyMap(m[k].m))

FloorOf(t) == Floor(NewNocturnal(t, input.cfg), input.offset, input.unit)

AddTo(t) == Add(NewNocturnal(t, input.cfg), input.offset, input.unit)

\* C23: every point of Timeline(a, b, o, u) is a bucket boundary,
\* Floor(p_i, o, u) = p_i, for every unit, every offset >= 1 and every
\* range.
C23_PointsAreBoundaries ==
    output.fn = "Timeline" =>
        \A i \in 1..Len(output.value) : FloorOf(output.value[i]) = output.value[i]

\* C24: Timeline(a, b, o, u) = p_0 .. p_last starts at Floor(a), steps by
\* Add, ends with p_last <= Floor(b) < Add(p_last), is strictly ascending
\* and complete, and is empty iff Floor(b) < Floor(a).
C24_TimelineIsContiguous ==
    output.fn = "Timeline" =>
        LET p == output.value
            last == Len(p)
        IN  /\ last < MaxPoints
            /\ (last = 0) <=> (FloorOf(input.to) < FloorOf(input.from))
            /\ last > 0 =>
                  /\ p[1] = FloorOf(input.from)
                  /\ \A i \in 1..(last - 1) : AddTo(p[i]) = p[i + 1] /\ p[i] < p[i + 1]
                  /\ p[last] <= FloorOf(input.to)
                  /\ FloorOf(input.to) < AddTo(p[last])

\* A timeline of MaxLen points or more was returned, over months, in the
\* zone with summer time.
C24_Witness ==
    /\ output.fn = "Timeline"
    /\ Len(output.value) >= MaxLen
    /\ input.unit = "mo"
    /\ input.cfg.TimeZone = "America/New_York"

\* C25: Floor(Floor(x, o, u), o, u) = Floor(x, o, u) and Floor(x, o, u) <= x,
\* for every instant, every offset >= 1 and each of the eight units, in the
\* configured zone.
C25_FloorIsIdempotentAndBelow ==
    output.fn = "Floor" =>
        /\ FloorOf(output.value) = output.value
        /\ output.value <= input.to

\* ---- C27: EffectiveGranularities ----------------------------------------

\* g is a granularity: one or more digits that make an offset >= 1, and a
\* unit suffix.
IsGranularity(g) ==
    \E k \in GranularitySplits(Chars(g)) : DecimalValue(SubSeq(Chars(g), 1, k)) >= 1

\* The first occurrences of the granularities in list, in order.
RECURSIVE FirstValid(_, _)
FirstValid(list, seen) ==
    IF Len(list) = 0 THEN <<>>
    ELSE IF Head(list) \in seen \/ ~IsGranularity(Head(list))
    THEN FirstValid(Tail(list), seen)
    ELSE <<Head(list)>> \o FirstValid(Tail(list), seen \cup {Head(list)})

\* C27: EffectiveGranularities returns the default list when Granularities
\* is nil, the empty list when it is empty, and otherwise the configured
\* entries that are valid granularities, without duplicates, in first-seen
\* order; with the empty list a Track or Assert writes nothing.
C27_EffectiveGranularities ==
    /\ [](output.fn = "EffectiveGranularities" =>
            output.value = (IF cfg.nilGranularities
                            THEN <<"1m", "1h", "1d", "1w", "1mo", "1q", "1y">>
                            ELSE FirstValid(cfg.Granularities, {})))
    /\ [][\A p \in Callers :
             (TrackStep(p) /\ ~cfg.nilGranularities /\ cfg.Granularities = <<>>)
                 => rows' = rows /\ kind'[p].call.keys = <<>>]_vars

\* ---- C26: Values ---------------------------------------------------------

\* The step in which p's Values runs.
ValuesStep(p) ==
    /\ Free(p)
    /\ kind'[p].name = "Values"
    /\ output' # output

\* The j-th smallest member of a set of indices.
Nth(indices, j) == CHOOSE i \in indices : Cardinality({k \in indices : k < i}) = j - 1

\* C26: Values returns At and Values of equal length, At being the
\* Timeline of the range and Values[i] the unpacked record of the bucket
\* At[i] (the empty map when there is none); with skip_blanks exactly the
\* pairs with an empty map are dropped, in order; with an invalid
\* granularity or a failing Get it returns an error and an empty result.
C26_ValuesSeries ==
    [][\A p \in Callers :
          ValuesStep(p) =>
             \E o \in {output'} :
             \E timeline \in {IF IsGranularity(o.granularity)
                               THEN Timeline(o.from, o.to, NewParser(o.granularity).Offset,
                                             NewParser(o.granularity).Unit, cfg)
                               ELSE <<>>} :
             \E records \in {[i \in 1..Len(timeline) |->
                                 DriverGet(cfg.Driver, rows,
                                           MkKey("", o.key, "", o.granularity, timeline[i]))]} :
                 IF ~IsGranularity(o.granularity)
                 THEN o.err = "err" /\ o.result = ValuesResult(<<>>, <<>>)
                 ELSE IF o.err = "err"
                 THEN o.left # NoFault /\ o.result = ValuesResult(<<>>, <<>>)
                 ELSE /\ o.left = NoFault \/ o.left >= getReads(cfg.Driver, timeline)
                      /\ Len(o.result.At) = Len(o.result.Values)
                      /\ \E kept \in SUBSET (1..Len(timeline)) :
                            /\ ~o.skipBlanks => kept = 1..Len(timeline)
                            /\ \A i \in (1..Len(timeline)) \ kept : EmptyMap \in records[i]
                            /\ Len(o.result.At) = Cardinality(kept)
                            /\ \A j \in 1..Cardinality(kept) :
                                  /\ o.result.At[j] = timeline[Nth(kept, j)]
                                  /\ o.result.Values[j] \in records[Nth(kept, j)]
                                  /\ o.skipBlanks => DOMAIN o.result.Values[j] # {}]_vars

\* Values with skip_blanks returned one bucket of the two hours asked for.
C26_Witness ==
    /\ output.fn = "Values"
    /\ output.err = "nil"
    /\ output.skipBlanks
    /\ output.granularity = "1h" /\ output.from = 0 /\ output.to = 4000
    /\ Len(output.result.At) = 1

\* ------------------------------------------ the worker and Shutdown
\* Two goroutines call a buffer built with every combination of Async and
\* Duration (negative, zero, positive), with and without aggregation, over a
\* driver with or without IncCount / SetCount: both enqueue (every write
\* flushes when Size is 1) and shut it down, one of them also calls Flush;
\* the worker, when NewBuffer started one, ticks.  The driver never fails.
ShutdownOptions ==
    {Options(duration, size, aggregate, async) :
        duration \in {0 - 1, 0, 1}, size \in {0, 1},
        aggregate \in BOOLEAN, async \in BOOLEAN}

InitShutdown ==
    \E countAware \in BOOLEAN, opts \in ShutdownOptions :
        InitBuffer(countAware, opts, Callers)

NextShutdown ==
    \/ \E operation \in {"inc", "set"} : Enqueue("c1", operation, K1, V1)
    \/ Enqueue("c2", "inc", K1, V1)
    \/ FlushCall("c2")
    \/ \E p \in Callers : ShutdownCall(p)
    \/ \E p \in Callers : ShutdownClose(p)
    \/ \E p \in Callers : ShutdownWait(p)
    \/ \E p \in Procs : Drain(p)
    \/ \E p \in Procs : Dispatch(p, {TRUE})
    \/ WorkerTick
    \/ WorkerStop

SpecShutdown == InitShutdown /\ [][NextShutdown]_vars

\* ---- C31: the worker's life ----------------------------------------------

\* The worker goroutine exists: it was started and has not returned.
WorkerAlive == pc[Worker] \in {"select", "flush", "dispatch"}

\* A Shutdown call has returned.
ShutdownReturned == \E p \in Callers : pc[p] = "done" /\ kind[p].name = "Shutdown"

\* C31: a buffer that is not closed has a worker iff it was built with Async
\* and Duration > 0; once a Shutdown call has returned the worker has exited
\* (it is in no Flush and makes no driver call any more).
C31_WorkerUntilShutdown ==
    /\ ~b.closed => (WorkerAlive <=> (b.async /\ b.duration > 0))
    /\ WorkerAlive => StartsWorker(b)
    /\ ShutdownReturned => ~WorkerAlive

\* ---- C32: the driver is called outside b.mu -------------------------------

\* The fields of the buffer that b.mu protects.
Locked(buffer) ==
    <<buffer.actionsBySig, buffer.actionsLinear, buffer.operationCount,
      buffer.closed, buffer.stopCh>>

\* C32: a step that calls the driver is a turn of Flush's dispatch loop, taken
\* after drainActions has returned, and touches nothing that b.mu protects;
\* a step that reads or writes what b.mu protects (enqueue, drain, the closed
\* flag) calls no driver.  While a goroutine is between two driver calls the
\* queue is open to the others: what they enqueue is accepted and queued.
C32_DispatchOutsideLock ==
    [][/\ writes' # writes =>
             /\ Locked(b') = Locked(b)
             /\ \E p \in Procs : pc[p] = "dispatch" /\ pending'[p] # pending[p]
       /\ Locked(b') # Locked(b) => writes' = writes /\ rows' = rows
       /\ \A p \in Callers :
             (EnqueueStep(p) /\ ~b.closed /\ ~EmptyCall(kind'[p].call))
                 => Len(hist') = Len(hist) + 1 /\ Len(hist') \in Queued']_vars

\* The worker is in its dispatch loop, the drained action not yet sent, and
\* a write the caller enqueued meanwhile has returned nil and is in the queue.
C32_Witness ==
    /\ pc[Worker] = "dispatch"
    /\ pending[Worker] # <<>>
    /\ pc["c1"] = "done" /\ kind["c1"].name \in {"Inc", "Set"} /\ ret["c1"] = "nil"
    /\ Queued = {2}

\* ---- C33: the buckets Track writes are among those Values reads ----------

\* The instants a write is probed at: the offered instants and the two ends
\* of the range.
Probes == Instants \cup {input.from, input.to}

\* C33: for every instant x with from <= x <= to, the bucket Floor(x) that
\* Track writes is a point of Timeline(from, to), whose points are the
\* buckets Values reads.
C33_WrittenBucketsAreRead ==
    output.fn = "Timeline" =>
        \A x \in Probes :
            (input.from <= x /\ x <= input.to) =>
                \E i \in 1..Len(output.value) : output.value[i] = FloorOf(x)

\* ---- C34: coalesced Sets against Sets applied one by one -----------------

\* All accepted calls are Set calls of one signature.
SameSignatureSets ==
    /\ Len(hist) > 0
    /\ \A i \in 1..Len(hist) :
          /\ hist[i].operation = "set"
          /\ signatureFor("set", hist[i].keys) = signatureFor("set", hist[1].keys)

\* C34: Set calls of one signature, sent through an aggregating buffer and
\* flushed, leave the driver as applying each Set by itself, in call order:
\* a path that an earlier call set and the last call does not name is
\* written too.
C34_CoalescedSetsEquivalence ==
    (b.aggregate /\ SameSignatureSets /\ Queued = {} /\ InFlight = {})
        => rows = DirectRows(NoRows, hist)

\* ---- C35: Inc and Set actions of one key list ----------------------------

\* All accepted calls have one key list and numeric payloads with the same
\* packed paths, and both operations occur.
IncsAndSetsOfOneKeyList ==
    /\ Len(hist) > 0
    /\ {hist[i].operation : i \in 1..Len(hist)} = {"inc", "set"}
    /\ \A i \in 1..Len(hist) :
          /\ hist[i].keys = hist[1].keys
          /\ AllNumeric(hist[i].values)
          /\ DOMAIN Pack(hist[i].values) = DOMAIN Pack(hist[1].values)

\* C35: an aggregating buffer hands the actions of one key list to the
\* driver in the order of their first enqueue, so that after the flush of
\* interleaved Inc and Set calls the driver is as after the calls applied in
\* call order.
C35_DispatchInEnqueueOrder ==
    b.aggregate =>
        /\ \A i, j \in 1..Len(writes) :
              (i < j /\ writes[i].keys = writes[j].keys)
                  => writes[i].ids[1] < writes[j].ids[1]
        /\ (IncsAndSetsOfOneKeyList /\ Queued = {} /\ InFlight = {})
              => rows = DirectRows(NoRows, hist)

\* ---- C36: real-time order of the writes of one key ------------------------

\* The ids of the logical calls a driver call carries.
IdsOf(w) == {w.ids[i] : i \in 1..Len(w.ids)}

\* C36: the calls of one goroutine are accepted in the order it made them,
\* each after the one before returned; of two such writes on the same keys
\* the driver receives the earlier one first (or both in one call), however
\* the worker's flush and the caller's own flushes interleave.
C36_RealTimeOrderKept ==
    \A i, j \in 1..Len(writes) :
        \A x \in IdsOf(writes[i]), y \in IdsOf(writes[j]) :
            (x < y /\ hist[x].keys = hist[y].keys) => i <= j

\* ---- C37: every accepted operation is delivered exactly once --------------

\* The number of logical operations in the queue, by the actions' counts.
RECURSIVE CountSum(_)
CountSum(actions) ==
    IF Len(actions) = 0 THEN 0 ELSE Head(actions).count + CountSum(Tail(actions))

QueuedActions ==
    IF b.aggregate THEN CHOOSE order \in MapOrders(b.actionsBySig) : TRUE
    ELSE b.actionsLinear

\* The logical operations the driver calls have delivered: IncCount and
\* SetCount deliver count operations, Inc and Set one.
RECURSIVE DeliveredSum(_)
DeliveredSum(log) ==
    IF Len(log) = 0 THEN 0 ELSE Head(log).count + DeliveredSum(Tail(log))

\* Shutdown has closed the buffer and no goroutine is inside a call.
AllReturned == b.closed /\ \A p \in Callers : Free(p)

S1h == MkKey("", systemKeyName, "", "1h", 0)

SystemRunKeys == {<<E1h>>, <<E1u>>, K1 \o <<E1h>>, <<S1h>>}

SystemRunValues == {V1, [k \in {"count"} |-> Num(0 - 3)]}

NextSystem ==
    \E op \in {"inc", "set"}, keys \in SystemRunKeys, values \in SystemRunValues,
       count \in {1, 2} :
        DriverCall("c1", op, keys, values, count, NoFault)

SpecSystem == InitDrivers /\ [][NextSystem]_vars

\* ---- C38: the system record's count and sources ---------------------------

\* The sources the runs can count a write under.
Sources == {"events", "metric", untrackedKeyName, systemKeyName}

\* The sum of the keys.<source> counters of a system record.
RECURSIVE SourceSum(_, _)
SourceSum(system, sources) ==
    IF sources = {} THEN 0
    ELSE LET s == CHOOSE x \in sources : TRUE
         IN  NumberAt(system, "keys." \o s) + SourceSum(system, sources \ {s})

\* The numbers at path in the system record of the hour bucket.
SystemNumbers(db, path) ==
    {NumberAt(system, path) : system \in DriverGet(cfg.Driver, db, SystemKey(E1h))}

\* C38: in every reachable state the system record of a bucket has
\* count = the sum of its keys.<source> counters, and no write makes count
\* or a keys.<source> counter smaller.
C38_SystemRecordConsistent ==
    /\ [](\A system \in DriverGet(cfg.Driver, rows, SystemKey(E1h)) :
             NumberAt(system, "count") = SourceSum(system, Sources))
    /\ [][\A path \in {"count"} \cup {"keys." \o s : s \in Sources} :
             \A before \in SystemNumbers(rows, path), after \in SystemNumbers(rows', path) :
                 before <= after]_vars

\* ------------------------------------------------ signatures
\* One goroutine calls an aggregating buffer with key lists that differ in
\* one field each (key, granularity, length, tracking override), with two
\* keys of one tracking identity (the override repeats the key), and with
\* two keys whose prefix and key hold the separator of the signature.
P1 == MkKey("a", "b:c", "t", "1h", 0)
P2 == MkKey("a:b", "c", "t", "1h", 0)

SignatureKeys ==
    {K1, K2, <<E1h>>, <<E1m>>, <<E1u>>, <<E1h, E1m>>,
     <<MkKey("", "events", "events", "1h", 0)>>, <<P1>>, <<P2>>}

InitSignature == InitBuffer(TRUE, Options(0, MaxSize, TRUE, FALSE), {"c1"})

NextSignature ==
    \/ \E operation \in {"inc", "set"}, keys \in SignatureKeys :
          Enqueue("c1", operation, keys, V1)
    \/ FlushCall("c1")
    \/ Drain("c1")
    \/ Dispatch("c1", {TRUE})

SpecSignature == InitSignature /\ [][NextSignature]_vars

\* ---- C39: what a signature stands for -------------------------------------

\* What the signature is derived from: per key the prefix, the key, the
\* granularity, the instant and the tracking identity.
KeyTuples(keys) ==
    [i \in 1..Len(keys) |->
        <<keys[i].Prefix, keys[i].Key, keys[i].Granularity, keys[i].At,
          SystemTrackingKey(keys[i])>>]

\* The call id was enqueued with the operation and the keys of the action.
EnqueuedAs(id, action) ==
    /\ hist[id].operation = action.operation
    /\ KeyTuples(hist[id].keys) = KeyTuples(action.keys)

\* C39: two accepted calls have the same signature only if they have the
\* same operation and equal key lists; so every call coalesced into a queued
\* action, and every call a driver call carries, was enqueued with that
\* operation and those keys.
C39_SignatureIsInjective ==
    /\ \A i, j \in 1..Len(hist) :
          signatureFor(hist[i].operation, hist[i].keys)
             = signatureFor(hist[j].operation, hist[j].keys)
          => /\ hist[i].operation = hist[j].operation
             /\ KeyTuples(hist[i].keys) = KeyTuples(hist[j].keys)
    /\ \A sig \in DOMAIN b.actionsBySig :
          \A i \in 1..Len(b.actionsBySig[sig].ids) :
              EnqueuedAs(b.actionsBySig[sig].ids[i], b.actionsBySig[sig])
    /\ \A j \in 1..Len(writes) :
          \A id \in IdsOf(writes[j]) : EnqueuedAs(id, writes[j])

====
